---- MODULE Spec2Model ----
(***************************************************************************)
(* A model of the EdgeLite screen-streaming pipeline: the host encoder     *)
(* (Host/encoder.py), the UDP transport with its fragmentation and control *)
(* channel (network.py), the client receiver (Client/receive.py) and the   *)
(* input channel (Client/input.py, client.py, Host/input.py).              *)
(***************************************************************************)
EXTENDS Integers, Sequences, FiniteSets, TLC

\* ------------------------------------------------------------------ bounds
\* Frames handed to add_frame in one run.
MaxFrames == 6
\* Packets codec_context.encode returns for one frame (0..MaxOut).
MaxOut == 2
\* Packets of any size handed to send_packet in one run (SpecTransport).
MaxPackets == 2
\* Small packets handed to send_packet in one run (SpecSendQueue).
MaxBurst == 21
\* Datagrams the video socket's send buffer holds before sendto would block.
SndBufCap == 3
\* Largest payload, in whole MTUs, handed to send_packet.
MaxFrags == 3
\* Largest display or stream dimension given to set_scaling.
MaxDim == 2
\* Largest small pointer coordinate (100 and 200 are there besides).
MaxCoord == 1
\* Raw input events and control commands in one run.
MaxEvents == 1
\* Longest quality level a QUALITY: command carries, in characters.
MaxLevelLen == 2
\* Datagrams sent to the discovery port in one run.
MaxBroadcasts == 3
\* Frames the receiver decodes in one run.
MaxRxFrames == 3
\* Frames the capture loop grabs in one host session.
MaxSessionFrames == 2

\* ------------------------------------------------------- program constants
FrameQueueSize == 3
EncPacketQueueSize == 10
StrPacketQueueSize == 20
RxFrameQueueSize == 2
CapFrameQueueSize == 2
MtuLinux == 1500
MtuWindows == 1400
U16 == 65536
\* NetworkDiscovery.__init__: port
DiscoveryPort == 5557
DefaultDisplayWidth == 1920
DefaultDisplayHeight == 1080
DefaultStreamWidth == 1280
DefaultStreamHeight == 720

Platforms == {"windows", "darwin", "linux", "other"}

\* encoder.encoder_name / receiver.decoder_name while no instance exists.
NoCodec == "none"
SoftwareEncoder == "libx264"
SoftwareDecoder == "h264"

\* The ordered candidate lists of _select_*_encoder and _get_*_decoder.
EncoderCandidates(p) ==
    CASE p = "windows" -> <<"h264_nvenc", "h264_amf", "h264_qsv", "h264_mf">>
      [] p = "darwin"  -> <<"h264_videotoolbox">>
      [] p = "linux"   -> <<"h264_vaapi", "h264_nvenc", "h264_omx">>
      [] OTHER         -> <<>>

DecoderCandidates(p) ==
    CASE p = "darwin"  -> <<"h264_videotoolbox">>
      [] p = "linux"   -> <<"h264_vaapi", "h264_v4l2m2m", "h264_mmal", "h264_cuvid">>
      [] p = "windows" -> <<"h264_cuvid", "h264_d3d11va", "h264_dxva2">>
      [] OTHER         -> <<>>

Range(s) == { s[i] : i \in DOMAIN s }

VARIABLES
    platform,           \* platform.system().lower() of the process
    \* --- the codecs of the machine (the environment av.CodecContext sees)
    enc_creatable,      \* encoders av.CodecContext.create(name, 'w') accepts
    enc_openable,       \* encoders whose codec_context.open() succeeds
    dec_creatable,      \* decoders av.CodecContext.create(name, 'r') accepts
    \* --- CrossPlatformEncoder
    encoder_name,       \* encoder.encoder_name, NoCodec before __init__
    codec_context,      \* "none" | "created" | "open" | "closed"
    enc_start,          \* how start_encoding ended: "none" | "ok" | "raised"
    enc_running,        \* encoder.running
    enc_frame_queue,    \* encoder.frame_queue  (queue.Queue(maxsize=3))
    enc_packet_queue,   \* encoder.packet_queue (queue.Queue(maxsize=10))
    enc_frame_count,    \* encoder.frame_count
    \* --- EnhancedStreamer
    mtu_size,           \* streamer.mtu_size
    str_running,        \* streamer.running
    str_packet_queue,   \* streamer.packet_queue (queue.Queue(maxsize=20))
    video_socket,       \* "none" | "open" | "closed"
    client_address,     \* TRUE once start_streaming has set it
    sent_packets,       \* streamer.sent_packets
    sent_bytes,         \* streamer.sent_bytes
    \* --- the network and CrossPlatformVideoReceiver
    net,                \* datagrams accepted by sendto and not yet arrived
    decoder_name,       \* receiver.decoder_name, NoCodec before __init__
    rx_state,           \* "none" | "init" | "connected" | "failed"
    rx_connected,       \* receiver.connected
    rx_unit,            \* the last byte unit the receiver's demuxer was given
    \* --- EnhancedStreamer's control channel
    str_start,          \* how start_streaming ended: "none" | "ok" | "failed"
    control_socket,     \* "none" | "unbound" | "bound" | "closed"
    ctrl_thread,        \* the _control_loop thread: "none" | "running" | "exited"
    ctrl_net,           \* datagrams in flight to the host's control port
    ctrl_replies,       \* number of replies the control loop has sent
    ctrl_arrived,       \* input events of the datagrams recvfrom has returned
    injected,           \* the calls the host has made into pyautogui, in order
    \* --- the machine's input libraries
    pynput_available,   \* PYNPUT_AVAILABLE
    pyautogui_available,\* PYAUTOGUI_AVAILABLE
    \* --- CrossPlatformInputSender (Client/input.py)
    snd_scale_x,        \* sender.scale_x, a fraction [num, den]
    snd_scale_y,        \* sender.scale_y
    snd_socket,         \* sender.socket: "none" | "open" | "closed"
    snd_host_ip,        \* TRUE once connect has set sender.host_ip
    snd_listeners,      \* the pynput listeners: "none" | "started" | "stopped"
    snd_args,           \* the arguments of the last set_scaling call
    snd_repeat,         \* the last set_scaling call repeated the one before
    \* --- CrossPlatformInputForwarder (Host/input.py)
    fwd_scale_x,        \* forwarder.scale_x
    fwd_scale_y,        \* forwarder.scale_y
    fwd_socket,         \* forwarder.socket
    fwd_client_address, \* TRUE once connect has set forwarder.client_address
    fwd_listeners,      \* the host's pynput listeners
    fwd_args,           \* the arguments of the last set_scaling call
    fwd_repeat,         \* the last set_scaling call repeated the one before
    \* --- CrossPlatformInputSender (client.py)
    cp_display_width,   \* sender.display_width
    cp_display_height,  \* sender.display_height
    cp_stream_width,    \* sender.stream_width
    cp_stream_height,   \* sender.stream_height
    cp_running,         \* sender.running
    cp_socket,          \* sender.socket
    cp_host_ip,         \* TRUE once connect has set sender.host_ip
    \* --- history of the input channel
    events_in,          \* raw input events the OS listeners have reported
    raw_event,          \* the last raw event a sender's handler was called with
    sent_event,         \* the event that handler gave to sendto, or NoEvent
    last_handler,       \* whose handler ran last: "none"|"snd"|"fwd"|"cp"|"peer"
    \* --- CrossPlatformVideoReceiver's frame slot and receive loop
    rx_loop,            \* _receive_loop: "none" | "running" | "ended"
    rx_end_cause,       \* why it ended: "none" | "source" | "disconnect"
    rx_frame_queue,     \* receiver.frame_queue (queue.Queue(maxsize=2))
    rx_current_frame,   \* receiver.current_frame, 0 for None
    rx_decoded,         \* frames decoded so far; frame n is the n-th decoded
    rx_returned,        \* what the last get_frame returned and when
    \* --- NetworkDiscovery (Client/main.py) and the GUI's host list
    disc_running,       \* discovery.running
    disc_socket,        \* "none" | "bound" | "ephemeral" | "closed"
    disc_loop,          \* _discovery_loop: "none" | "running" | "ended"
    disc_net,           \* datagrams in flight to the discovery port
    disc_sent,          \* datagrams sent to the discovery port so far
    disc_log,           \* the datagrams recvfrom has returned, in order
    disc_calls,         \* the (host_name, ip) of each callback invocation
    discovered_hosts,   \* gui.discovered_hosts
    \* --- the control commands EnhancedStreamer has handled
    ctrl_log,           \* each command datagram handled, with the replies sent
    \* --- how the last disconnect() of each input class ended
    snd_disconnected,   \* Client/input.py sender: "none" | "ok" | "raised"
    fwd_disconnected,   \* Host/input.py forwarder
    cp_disconnected,    \* client.py sender
    \* --- EnhancedStreamer's streaming thread and its stop_streaming
    stream_thread,      \* the _streaming_loop thread: "none"|"running"|"exited"
    str_stop,           \* stop_streaming: "none" | "returned"
    \* --- EdgeLiteHost (Host/main host.py) and its CrossPlatformCapture
    host_streaming,     \* host.streaming
    host_capture,       \* host.capture is set (not None)
    host_encoder,       \* host.encoder is set
    host_streamer,      \* host.streamer is set
    host_input_forwarder, \* host.input_forwarder is set
    host_call,          \* where start_streaming / stop_streaming stands
    host_step,          \* the next step of the start or of the cleanup
    host_log,           \* the components started and stopped, in order
    pump_thread,        \* the _stream_packets thread: "none"|"running"|"exited"
    cap_running,        \* capture.running
    cap_thread,         \* the _capture_loop thread: "none"|"running"|"joined"
    \* --- CrossPlatformEncoder.stop_encoding
    enc_stop,           \* stop_encoding: "none" | "returned" | "blocked" (in put)
    \* --- CrossPlatformCapture's own frame queue and its last loop iteration
    cap_frame_queue,    \* capture.frame_queue (queue.Queue(maxsize=2))
    cap_last,           \* the last _capture_loop pass: frame, callback calls, queue before
    \* --- the consumer's last get_packet() on an empty queue
    gp_last,            \* [waits, item] of that call, NoGet before it
    \* --- the two threads that push to the encoder's packet_queue
    enc_at,             \* where the encode thread is in its pass: test | put
    enc_pending,        \* packets the encode thread has still to put
    flush_at,           \* where stop_encoding is: none | put | returned
    flush_pending,      \* packets stop_encoding has still to put
    \* --- failures of single items in the host loops
    error_at,           \* per loop, 0 or one more than its item counter when an item last failed
    \* --- a session of a client application
    ses_app,            \* the application: none | gui | client_py
    ses_call,           \* its connect handler: none | running | returned | raised | refused
    ses_step,           \* the step of connect_steps the handler is at
    ses_dims,           \* the display and stream dimensions of the session
    \* --- a discovery message made and parsed
    dm_args,            \* name, ip, port and timestamp given to create_broadcast_message
    dm_bytes,           \* the bytes it returned, one element per character
    dm_parsed,          \* what parse_broadcast_message made of them
    \* --- the port of the discovery listener
    disc_port,          \* NetworkDiscovery.port
    disc_bound,         \* the port its socket is bound to, 0 while unbound
    \* --- earlier sessions of the host application
    old_pumps,          \* _stream_packets threads of earlier sessions still running
    host_restarts,      \* start_streaming calls after the first
    \* --- capture.get_frame
    cap_got,            \* the last capture.get_frame call: queue before, what it returned or raised
    \* --- codec calls of the encode thread
    enc_frame,          \* the frame the encode thread has taken and not yet encoded (0: none)
    enc_call_on,        \* the codec context as it was when the encode thread entered its last encode call
    \* --- EdgeLiteClient (client.py) and its receiver
    app_connected,      \* EdgeLiteClient.connected
    rcv_connected,      \* receiver.connected, which get_stats reports
    \* --- history
    frames_in,          \* number of add_frame calls so far
    packets_in,         \* number of send_packet calls so far
    frag_seqs,          \* packet_sequence of each fragmented packet, in order
    sendto_log,         \* datagrams the last _streaming_loop pass gave to sendto
    last_packet,        \* the packet the last _streaming_loop pass took
    last_op             \* the last queue operation: [op, queue, item, full]

env_vars == <<platform, enc_creatable, enc_openable, dec_creatable>>
enc_vars == <<encoder_name, codec_context, enc_start, enc_running,
              enc_frame_queue, enc_packet_queue, enc_frame_count, frames_in>>
str_vars == <<mtu_size, str_running, str_packet_queue, video_socket,
              client_address, sent_packets, sent_bytes, packets_in,
              frag_seqs, sendto_log, last_packet>>
rx_vars == <<decoder_name, rx_state, rx_connected, rx_unit>>

ctl_vars == <<str_start, control_socket, ctrl_thread, ctrl_net, ctrl_replies,
              ctrl_arrived, injected>>
snd_vars == <<snd_scale_x, snd_scale_y, snd_socket, snd_host_ip, snd_listeners,
              snd_args, snd_repeat>>
fwd_vars == <<fwd_scale_x, fwd_scale_y, fwd_socket, fwd_client_address,
              fwd_listeners, fwd_args, fwd_repeat>>
cp_vars == <<cp_display_width, cp_display_height, cp_stream_width,
             cp_stream_height, cp_running, cp_socket, cp_host_ip>>
ev_vars == <<events_in, raw_event, sent_event, last_handler>>
inp_vars == <<pynput_available, pyautogui_available, snd_vars, fwd_vars,
              cp_vars, ev_vars>>

pipe_vars == <<env_vars, enc_vars, str_vars, net, rx_vars, last_op>>

rxf_vars == <<rx_loop, rx_end_cause, rx_frame_queue, rx_current_frame,
              rx_decoded, rx_returned>>
disc_vars == <<disc_running, disc_socket, disc_loop, disc_net, disc_sent,
               disc_log, disc_calls, discovered_hosts>>
cmd_vars == <<ctrl_log>>
life_vars == <<snd_disconnected, fwd_disconnected, cp_disconnected>>
thr_vars == <<stream_thread, str_stop>>
host_refs == <<host_capture, host_encoder, host_streamer, host_input_forwarder>>
host_vars == <<host_streaming, host_refs, host_call, host_step, host_log,
               pump_thread, cap_running, cap_thread>>
est_vars == <<enc_stop>>
cap_vars == <<cap_frame_queue, cap_last>>
gp_vars == <<gp_last>>
pq_vars == <<enc_at, enc_pending, flush_at, flush_pending>>
fail_vars == <<error_at>>
ses_vars == <<ses_app, ses_call, ses_step, ses_dims>>
dm_vars == <<dm_args, dm_bytes, dm_parsed>>
dp_vars == <<disc_port, disc_bound>>
old_vars == <<old_pumps, host_restarts>>
cg_vars == <<cap_got>>
cc_vars == <<enc_frame, enc_call_on>>
app_vars == <<app_connected, rcv_connected>>
ext_vars ==
    <<rxf_vars, disc_vars, cmd_vars, life_vars,
      thr_vars, host_vars, est_vars, cap_vars,
      gp_vars, pq_vars, fail_vars, ses_vars,
      dm_vars, dp_vars, old_vars, cg_vars,
      cc_vars, app_vars>>
but_rxf ==
    <<disc_vars, cmd_vars, life_vars, thr_vars,
      host_vars, est_vars, cap_vars, gp_vars,
      pq_vars, fail_vars, ses_vars, dm_vars,
      dp_vars, old_vars, cg_vars, cc_vars,
      app_vars>>
but_disc ==
    <<rxf_vars, cmd_vars, life_vars, thr_vars,
      host_vars, est_vars, cap_vars, gp_vars,
      pq_vars, fail_vars, ses_vars, dm_vars,
      dp_vars, old_vars, cg_vars, cc_vars,
      app_vars>>
but_cmd ==
    <<rxf_vars, disc_vars, life_vars, thr_vars,
      host_vars, est_vars, cap_vars, gp_vars,
      pq_vars, fail_vars, ses_vars, dm_vars,
      dp_vars, old_vars, cg_vars, cc_vars,
      app_vars>>
but_life ==
    <<rxf_vars, disc_vars, cmd_vars, thr_vars,
      host_vars, est_vars, cap_vars, gp_vars,
      pq_vars, fail_vars, ses_vars, dm_vars,
      dp_vars, old_vars, cg_vars, cc_vars,
      app_vars>>
but_thr ==
    <<rxf_vars, disc_vars, cmd_vars, life_vars,
      host_vars, est_vars, cap_vars, gp_vars,
      pq_vars, fail_vars, ses_vars, dm_vars,
      dp_vars, old_vars, cg_vars, cc_vars,
      app_vars>>
but_host ==
    <<rxf_vars, disc_vars, cmd_vars, life_vars,
      thr_vars, est_vars, cap_vars, gp_vars,
      pq_vars, fail_vars, ses_vars, dm_vars,
      dp_vars, old_vars, cg_vars, cc_vars,
      app_vars>>
but_est ==
    <<rxf_vars, disc_vars, cmd_vars, life_vars,
      thr_vars, host_vars, cap_vars, gp_vars,
      pq_vars, fail_vars, ses_vars, dm_vars,
      dp_vars, old_vars, cg_vars, cc_vars,
      app_vars>>
but_cap ==
    <<rxf_vars, disc_vars, cmd_vars, life_vars,
      thr_vars, host_vars, est_vars, gp_vars,
      pq_vars, fail_vars, ses_vars, dm_vars,
      dp_vars, old_vars, cg_vars, cc_vars,
      app_vars>>
but_gp ==
    <<rxf_vars, disc_vars, cmd_vars, life_vars,
      thr_vars, host_vars, est_vars, cap_vars,
      pq_vars, fail_vars, ses_vars, dm_vars,
      dp_vars, old_vars, cg_vars, cc_vars,
      app_vars>>
but_pq ==
    <<rxf_vars, disc_vars, cmd_vars, life_vars,
      thr_vars, host_vars, est_vars, cap_vars,
      gp_vars, fail_vars, ses_vars, dm_vars,
      dp_vars, old_vars, cg_vars, cc_vars,
      app_vars>>
but_fail ==
    <<rxf_vars, disc_vars, cmd_vars, life_vars,
      thr_vars, host_vars, est_vars, cap_vars,
      gp_vars, pq_vars, ses_vars, dm_vars,
      dp_vars, old_vars, cg_vars, cc_vars,
      app_vars>>
but_ses ==
    <<rxf_vars, disc_vars, cmd_vars, life_vars,
      thr_vars, host_vars, est_vars, cap_vars,
      gp_vars, pq_vars, fail_vars, dm_vars,
      dp_vars, old_vars, cg_vars, cc_vars,
      app_vars>>
but_dm ==
    <<rxf_vars, disc_vars, cmd_vars, life_vars,
      thr_vars, host_vars, est_vars, cap_vars,
      gp_vars, pq_vars, fail_vars, ses_vars,
      dp_vars, old_vars, cg_vars, cc_vars,
      app_vars>>
but_dp ==
    <<rxf_vars, disc_vars, cmd_vars, life_vars,
      thr_vars, host_vars, est_vars, cap_vars,
      gp_vars, pq_vars, fail_vars, ses_vars,
      dm_vars, old_vars, cg_vars, cc_vars,
      app_vars>>
but_old ==
    <<rxf_vars, disc_vars, cmd_vars, life_vars,
      thr_vars, host_vars, est_vars, cap_vars,
      gp_vars, pq_vars, fail_vars, ses_vars,
      dm_vars, dp_vars, cg_vars, cc_vars,
      app_vars>>
but_cg ==
    <<rxf_vars, disc_vars, cmd_vars, life_vars,
      thr_vars, host_vars, est_vars, cap_vars,
      gp_vars, pq_vars, fail_vars, ses_vars,
      dm_vars, dp_vars, old_vars, cc_vars,
      app_vars>>
but_cc ==
    <<rxf_vars, disc_vars, cmd_vars, life_vars,
      thr_vars, host_vars, est_vars, cap_vars,
      gp_vars, pq_vars, fail_vars, ses_vars,
      dm_vars, dp_vars, old_vars, cg_vars,
      app_vars>>
but_app ==
    <<rxf_vars, disc_vars, cmd_vars, life_vars,
      thr_vars, host_vars, est_vars, cap_vars,
      gp_vars, pq_vars, fail_vars, ses_vars,
      dm_vars, dp_vars, old_vars, cg_vars,
      cc_vars>>
but_host_rxf ==
    <<disc_vars, cmd_vars, life_vars, thr_vars,
      est_vars, cap_vars, gp_vars, pq_vars,
      fail_vars, ses_vars, dm_vars, dp_vars,
      old_vars, cg_vars, cc_vars, app_vars>>
but_host_disc ==
    <<rxf_vars, cmd_vars, life_vars, thr_vars,
      est_vars, cap_vars, gp_vars, pq_vars,
      fail_vars, ses_vars, dm_vars, dp_vars,
      old_vars, cg_vars, cc_vars, app_vars>>
but_host_cmd ==
    <<rxf_vars, disc_vars, life_vars, thr_vars,
      est_vars, cap_vars, gp_vars, pq_vars,
      fail_vars, ses_vars, dm_vars, dp_vars,
      old_vars, cg_vars, cc_vars, app_vars>>
but_host_life ==
    <<rxf_vars, disc_vars, cmd_vars, thr_vars,
      est_vars, cap_vars, gp_vars, pq_vars,
      fail_vars, ses_vars, dm_vars, dp_vars,
      old_vars, cg_vars, cc_vars, app_vars>>
but_host_thr ==
    <<rxf_vars, disc_vars, cmd_vars, life_vars,
      est_vars, cap_vars, gp_vars, pq_vars,
      fail_vars, ses_vars, dm_vars, dp_vars,
      old_vars, cg_vars, cc_vars, app_vars>>
but_host_est ==
    <<rxf_vars, disc_vars, cmd_vars, life_vars,
      thr_vars, cap_vars, gp_vars, pq_vars,
      fail_vars, ses_vars, dm_vars, dp_vars,
      old_vars, cg_vars, cc_vars, app_vars>>
but_host_cap ==
    <<rxf_vars, disc_vars, cmd_vars, life_vars,
      thr_vars, est_vars, gp_vars, pq_vars,
      fail_vars, ses_vars, dm_vars, dp_vars,
      old_vars, cg_vars, cc_vars, app_vars>>
but_host_gp ==
    <<rxf_vars, disc_vars, cmd_vars, life_vars,
      thr_vars, est_vars, cap_vars, pq_vars,
      fail_vars, ses_vars, dm_vars, dp_vars,
      old_vars, cg_vars, cc_vars, app_vars>>
but_host_pq ==
    <<rxf_vars, disc_vars, cmd_vars, life_vars,
      thr_vars, est_vars, cap_vars, gp_vars,
      fail_vars, ses_vars, dm_vars, dp_vars,
      old_vars, cg_vars, cc_vars, app_vars>>
but_host_fail ==
    <<rxf_vars, disc_vars, cmd_vars, life_vars,
      thr_vars, est_vars, cap_vars, gp_vars,
      pq_vars, ses_vars, dm_vars, dp_vars,
      old_vars, cg_vars, cc_vars, app_vars>>
but_host_ses ==
    <<rxf_vars, disc_vars, cmd_vars, life_vars,
      thr_vars, est_vars, cap_vars, gp_vars,
      pq_vars, fail_vars, dm_vars, dp_vars,
      old_vars, cg_vars, cc_vars, app_vars>>
but_host_dm ==
    <<rxf_vars, disc_vars, cmd_vars, life_vars,
      thr_vars, est_vars, cap_vars, gp_vars,
      pq_vars, fail_vars, ses_vars, dp_vars,
      old_vars, cg_vars, cc_vars, app_vars>>
but_host_dp ==
    <<rxf_vars, disc_vars, cmd_vars, life_vars,
      thr_vars, est_vars, cap_vars, gp_vars,
      pq_vars, fail_vars, ses_vars, dm_vars,
      old_vars, cg_vars, cc_vars, app_vars>>
but_host_old ==
    <<rxf_vars, disc_vars, cmd_vars, life_vars,
      thr_vars, est_vars, cap_vars, gp_vars,
      pq_vars, fail_vars, ses_vars, dm_vars,
      dp_vars, cg_vars, cc_vars, app_vars>>
but_host_cg ==
    <<rxf_vars, disc_vars, cmd_vars, life_vars,
      thr_vars, est_vars, cap_vars, gp_vars,
      pq_vars, fail_vars, ses_vars, dm_vars,
      dp_vars, old_vars, cc_vars, app_vars>>
but_host_cc ==
    <<rxf_vars, disc_vars, cmd_vars, life_vars,
      thr_vars, est_vars, cap_vars, gp_vars,
      pq_vars, fail_vars, ses_vars, dm_vars,
      dp_vars, old_vars, cg_vars, app_vars>>
but_host_app ==
    <<rxf_vars, disc_vars, cmd_vars, life_vars,
      thr_vars, est_vars, cap_vars, gp_vars,
      pq_vars, fail_vars, ses_vars, dm_vars,
      dp_vars, old_vars, cg_vars, cc_vars>>
but_pq_fail ==
    <<rxf_vars, disc_vars, cmd_vars, life_vars,
      thr_vars, host_vars, est_vars, cap_vars,
      gp_vars, ses_vars, dm_vars, dp_vars,
      old_vars, cg_vars, cc_vars, app_vars>>
but_thr_fail ==
    <<rxf_vars, disc_vars, cmd_vars, life_vars,
      host_vars, est_vars, cap_vars, gp_vars,
      pq_vars, ses_vars, dm_vars, dp_vars,
      old_vars, cg_vars, cc_vars, app_vars>>
but_disc_dp ==
    <<rxf_vars, cmd_vars, life_vars, thr_vars,
      host_vars, est_vars, cap_vars, gp_vars,
      pq_vars, fail_vars, ses_vars, dm_vars,
      old_vars, cg_vars, cc_vars, app_vars>>
but_cap_cg ==
    <<rxf_vars, disc_vars, cmd_vars, life_vars,
      thr_vars, host_vars, est_vars, gp_vars,
      pq_vars, fail_vars, ses_vars, dm_vars,
      dp_vars, old_vars, cc_vars, app_vars>>
but_pq_cc ==
    <<rxf_vars, disc_vars, cmd_vars, life_vars,
      thr_vars, host_vars, est_vars, cap_vars,
      gp_vars, fail_vars, ses_vars, dm_vars,
      dp_vars, old_vars, cg_vars, app_vars>>
but_life_app ==
    <<rxf_vars, disc_vars, cmd_vars, thr_vars,
      host_vars, est_vars, cap_vars, gp_vars,
      pq_vars, fail_vars, ses_vars, dm_vars,
      dp_vars, old_vars, cg_vars, cc_vars>>
but_restart ==
    <<rxf_vars, disc_vars, cmd_vars, gp_vars,
      pq_vars, fail_vars, ses_vars, dm_vars,
      dp_vars, cg_vars, cc_vars, app_vars>>

vars == <<pipe_vars, ctl_vars, inp_vars, ext_vars>>

\* ----------------------------------------------------------------- helpers
Min(a, b) == IF a < b THEN a ELSE b

NoPacket == [frame |-> 0, part |-> 0, data |-> <<>>]
NoOp == [op |-> "none", queue |-> "none", item |-> 0, full |-> FALSE]
\* get_packet has not been called on an empty queue yet.
NoGet == [waits |-> FALSE, item |-> NoPacket, called |-> FALSE]
\* capture.get_frame has not been called yet.
NoGot == [called |-> FALSE, before |-> <<>>, raised |-> "none",
          none |-> FALSE, frame |-> 0]
\* capture's loop has not made a pass yet.
NoPass == [frame |-> 0, calls |-> <<>>, before |-> <<>>]

\* A payload of n bytes; byte i is i % 251, so that a slice taken at the wrong
\* offset differs from the right one.
MakePayload(n) == [i \in 1..n |-> i % 251]

\* The payload sizes handed to send_packet: around the MTU and its multiples,
\* and the 5000 bytes of the specification's scenario.
PayloadLens(mtu) == {1, mtu, mtu + 1, 2 * mtu, MaxFrags * mtu + 1, 5000}

\* The packets codec_context.encode(frame) may return for frame f.
Pkt(f, k) == [frame |-> f, part |-> k, data |-> <<f % 256, k % 256>>]
EncodeOutputs(f) == { [k \in 1..n |-> Pkt(f, k)] : n \in 0..MaxOut }

\* packet.to_bytes()
to_bytes(packet) == packet.data

\* queue.Queue.full()
full(q, maxsize) == Len(q) >= maxsize

\* `if not q.full(): q.put_nowait(item)`: a full queue is left as it is.
put_if_not_full(q, maxsize, item) ==
    IF full(q, maxsize) THEN q ELSE Append(q, item)

RECURSIVE put_all(_, _, _)
put_all(q, maxsize, items) ==
    IF items = <<>> THEN q
    ELSE put_all(put_if_not_full(q, maxsize, Head(items)), maxsize, Tail(items))

\* struct.pack('!HHH', a, b, c): three big-endian unsigned 16-bit fields;
\* struct.error when a field does not fit.
pack_ok(a, b, c) == a \in 0..(U16 - 1) /\ b \in 0..(U16 - 1) /\ c \in 0..(U16 - 1)
pack_HHH(a, b, c) ==
    << a \div 256, a % 256, b \div 256, b % 256, c \div 256, c % 256 >>

\* The big-endian unsigned 16-bit field at bytes at, at+1 of a datagram.
unpack_H(d, at) == d[at] * 256 + d[at + 1]

\* The packet_sequence _send_fragmented writes into every header.
PacketSequence(packet) == 0

\* _send_fragmented: num_fragments, the slices and the datagrams it builds.
num_fragments_floor(total_size, mtu) == total_size \div mtu
num_fragments(total_size, mtu) == (total_size + mtu - 1) \div mtu

fragment(data, i, mtu) ==
    SubSeq(data, i * mtu + 1, Min(i * mtu + mtu, Len(data)))

FragmentDatagramsBackwards(packet, mtu) ==
    LET data == to_bytes(packet)
        n == num_fragments(Len(data), mtu)
    IN [j \in 1..n |->
          pack_HHH(PacketSequence(packet), n - j, n) \o fragment(data, n - j, mtu)]

FragmentDatagrams(packet, mtu) ==
    LET data == to_bytes(packet)
        n == num_fragments(Len(data), mtu)
    IN [j \in 1..n |->
          pack_HHH(PacketSequence(packet), j - 1, n) \o fragment(data, j - 1, mtu)]

\* The datagrams one _streaming_loop pass hands to _send_packet for a packet.
DatagramsFor(packet, mtu) ==
    IF Len(to_bytes(packet)) > mtu
    THEN FragmentDatagrams(packet, mtu)
    ELSE << to_bytes(packet) >>

\* _send_packet over a list of datagrams: sendto accepts a datagram while the
\* socket's send buffer has room and raises BlockingIOError otherwise (the
\* datagram is dropped); a closed or absent socket sends nothing.
RECURSIVE SendAll(_, _, _)
SendAll(buf, ds, sock_ok) ==
    IF ds = <<>> THEN buf
    ELSE IF sock_ok /\ Len(buf) < SndBufCap
         THEN SendAll(Append(buf, Head(ds)), Tail(ds), sock_ok)
         ELSE SendAll(buf, Tail(ds), sock_ok)

RemoveAt(s, i) == SubSeq(s, 1, i - 1) \o SubSeq(s, i + 1, Len(s))

\* The loop of _select_windows_encoder, _select_linux_encoder,
\* _get_linux_decoder, ...: the first candidate that create() accepts.
RECURSIVE LastCreatable(_, _, _)
LastCreatable(candidates, creatable, software) ==
    IF candidates = <<>> THEN software
    ELSE IF candidates[Len(candidates)] \in creatable
         THEN candidates[Len(candidates)]
    ELSE LastCreatable(SubSeq(candidates, 1, Len(candidates) - 1), creatable,
                       software)

\* The walk of _select_*_encoder and _get_*_decoder: the first candidate, in
\* the order of the list, that av.CodecContext.create accepts; the software
\* codec, unprobed, when there is none.
RECURSIVE FirstCreatable(_, _, _)
FirstCreatable(candidates, creatable, software) ==
    IF candidates = <<>> THEN software
    ELSE IF Head(candidates) \in creatable THEN Head(candidates)
    ELSE FirstCreatable(Tail(candidates), creatable, software)

_select_platform_encoder(p, creatable) ==
    FirstCreatable(EncoderCandidates(p), creatable, SoftwareEncoder)

_get_platform_decoder(p, creatable) ==
    FirstCreatable(DecoderCandidates(p), creatable, SoftwareDecoder)

\* ------------------------------------------------------------ input events
Dims == 0..MaxDim
PosDims == 1..MaxDim
Coords == {-1} \cup (0..MaxCoord) \cup {100, 200}
Buttons == {"Button.left", "Button.right"}
ScrollSteps == {-1, 1}
Keys == {"a", "Key.cmd", "Key.shift"}

NoArgs == <<>>
NoEvent == [type |-> "none", action |-> "none", x |-> 0, y |-> 0,
            button |-> "", dx |-> 0, dy |-> 0, key |-> ""]

\* The dict a mouse handler builds (its timestamp left out).
MouseEvent(action, x, y, button, dx, dy) ==
    [type |-> "mouse", action |-> action, x |-> x, y |-> y,
     button |-> button, dx |-> dx, dy |-> dy, key |-> ""]

\* The dict a key handler builds.
KeyEvent(action, key_str) ==
    [type |-> "keyboard", action |-> action, x |-> 0, y |-> 0,
     button |-> "", dx |-> 0, dy |-> 0, key |-> key_str]

\* str(button).replace('Button.', '')
button_name(button) ==
    CASE button = "Button.left" -> "left"
      [] button = "Button.right" -> "right"
      [] OTHER -> button

\* CrossPlatformInputSender._key_to_string (Client/input.py)
_key_to_string(key, p) ==
    CASE key = "Key.cmd"   -> IF p = "darwin" THEN "super" ELSE "cmd"
      [] key = "Key.shift" -> "shift"
      [] OTHER             -> key

\* get_frame has not been called.
NoReturn == [frame |-> -1, decoded |-> 0]

\* The arguments of a pyautogui call.
PyCall(call, x, y, button, dy, key) ==
    [call |-> call, x |-> x, y |-> y, button |-> button, dy |-> dy,
     key |-> key]

\* Texts are sequences of characters.
StatsText == <<"S", "T", "A", "T", "S">>
QualityPrefix == <<"Q", "U", "A", "L", "I", "T", "Y", ":">>
AckPrefix == <<"Q", "U", "A", "L", "I", "T", "Y", "_", "A", "C", "K", ":">>
LevelChars == {"h", ":", " "}
Levels == UNION { [1..n -> LevelChars] : n \in 0..MaxLevelLen }
PeerAddrs == {"10.0.0.1", "10.0.0.2"}

\* str.strip()
RECURSIVE lstrip(_)
lstrip(t) == IF t # <<>> /\ Head(t) = " " THEN lstrip(Tail(t)) ELSE t
RECURSIVE rstrip(_)
rstrip(t) == IF t # <<>> /\ t[Len(t)] = " "
             THEN rstrip(SubSeq(t, 1, Len(t) - 1)) ELSE t
strip(t) == rstrip(lstrip(t))

\* str.startswith(prefix)
startswith(t, prefix) ==
    Len(t) >= Len(prefix) /\ SubSeq(t, 1, Len(prefix)) = prefix

\* The text before the first sep of t, or all of t.
RECURSIVE upto(_, _)
upto(t, sep) ==
    IF t = <<>> \/ Head(t) = sep THEN <<>>
    ELSE <<Head(t)>> \o upto(Tail(t), sep)

\* command.split(':')[1] for a command that holds a colon: the text between
\* its first colon and its second, or its end.
split_1(command) ==
    upto(SubSeq(command, Len(upto(command, ":")) + 2, Len(command)), ":")

\* A control datagram: the UTF-8 JSON text of an event (of which only the
\* opening brace is kept), or a command text; `addr` is its sender.
InputDatagram(event) ==
    [kind |-> "json", event |-> event, text |-> <<"{">>, addr |-> "10.0.0.2"]
TextDatagram(text, addr) ==
    [kind |-> "text", event |-> NoEvent, text |-> text, addr |-> addr]
StatsDatagram == TextDatagram(StatsText, "10.0.0.1")

\* Fractions stand for the floats display / stream: a / b in lowest terms.
RECURSIVE GCD(_, _)
GCD(a, b) == IF b = 0 THEN a ELSE GCD(b, a % b)
Ratio(a, b) == LET g == GCD(a, b) IN [num |-> a \div g, den |-> b \div g]
One == [num |-> 1, den |-> 1]

\* int(): truncation toward zero, of a / b with b > 0.
TruncDiv(a, b) == IF a >= 0 THEN a \div b ELSE -((-a) \div b)

\* CrossPlatformInputSender._scale_coordinates (Client/input.py):
\* (int(x * scale_x), int(y * scale_y)).
snd_scale_coordinates(x, y, sx, sy) ==
    << TruncDiv(x * sx.num, sx.den), TruncDiv(y * sy.num, sy.den) >>

\* CrossPlatformInputSender._scale_coordinates (client.py):
\* (int(x * stream_width / display_width), int(y * stream_height /
\* display_height)) when both display dimensions are positive, else (x, y).
cp_unscaled(x, y, dw, dh, sw, sh) == << x, y >>
cp_scale_coordinates(x, y, dw, dh, sw, sh) ==
    IF dw > 0 /\ dh > 0
    THEN << TruncDiv(x * sw, dw), TruncDiv(y * sh, dh) >>
    ELSE << x, y >>

\* CrossPlatformInputSender.set_scaling (Client/input.py) and
\* CrossPlatformInputForwarder.set_scaling: the quotient of its first
\* argument by its second.
scale_swapped(display, stream) == Ratio(stream, display)
scale_factor(display, stream) == Ratio(display, stream)

\* -------------------------------------------------------------------- Init
\* Before any component is constructed.
InitState ==
    /\ encoder_name = NoCodec
    /\ codec_context = "none"
    /\ enc_start = "none"
    /\ enc_running = FALSE
    /\ enc_frame_queue = <<>>
    /\ enc_packet_queue = <<>>
    /\ enc_frame_count = 0
    /\ mtu_size = IF platform \in {"linux", "darwin"} THEN MtuLinux ELSE MtuWindows
    /\ str_running = FALSE
    /\ str_packet_queue = <<>>
    /\ video_socket = "none"
    /\ client_address = FALSE
    /\ sent_packets = 0
    /\ sent_bytes = 0
    /\ net = <<>>
    /\ decoder_name = NoCodec
    /\ rx_state = "none"
    /\ rx_connected = FALSE
    /\ rx_unit = <<>>
    /\ frames_in = 0
    /\ packets_in = 0
    /\ frag_seqs = <<>>
    /\ sendto_log = <<>>
    /\ last_packet = NoPacket
    /\ last_op = NoOp
    /\ str_start = "none"
    /\ control_socket = "none"
    /\ ctrl_thread = "none"
    /\ ctrl_net = <<>>
    /\ ctrl_replies = 0
    /\ ctrl_arrived = <<>>
    /\ injected = <<>>
    /\ snd_scale_x = One
    /\ snd_scale_y = One
    /\ snd_socket = "none"
    /\ snd_host_ip = FALSE
    /\ snd_listeners = "none"
    /\ snd_args = NoArgs
    /\ snd_repeat = FALSE
    /\ fwd_scale_x = One
    /\ fwd_scale_y = One
    /\ fwd_socket = "none"
    /\ fwd_client_address = FALSE
    /\ fwd_listeners = "none"
    /\ fwd_args = NoArgs
    /\ fwd_repeat = FALSE
    /\ cp_display_width = DefaultDisplayWidth
    /\ cp_display_height = DefaultDisplayHeight
    /\ cp_stream_width = DefaultStreamWidth
    /\ cp_stream_height = DefaultStreamHeight
    /\ cp_running = FALSE
    /\ cp_socket = "none"
    /\ cp_host_ip = FALSE
    /\ events_in = 0
    /\ raw_event = NoEvent
    /\ sent_event = NoEvent
    /\ last_handler = "none"
    /\ rx_loop = "none"
    /\ rx_end_cause = "none"
    /\ rx_frame_queue = <<>>
    /\ rx_current_frame = 0
    /\ rx_decoded = 0
    /\ rx_returned = NoReturn
    /\ ctrl_log = <<>>
    /\ snd_disconnected = "none"
    /\ fwd_disconnected = "none"
    /\ cp_disconnected = "none"
    /\ stream_thread = "none"
    /\ str_stop = "none"
    /\ host_streaming = FALSE
    /\ host_capture = FALSE
    /\ host_encoder = FALSE
    /\ host_streamer = FALSE
    /\ host_input_forwarder = FALSE
    /\ host_call = "none"
    /\ host_step = 1
    /\ host_log = <<>>
    /\ pump_thread = "none"
    /\ cap_running = FALSE
    /\ cap_thread = "none"
    /\ disc_running = FALSE
    /\ disc_socket = "none"
    /\ disc_loop = "none"
    /\ disc_net = <<>>
    /\ disc_sent = 0
    /\ disc_log = <<>>
    /\ disc_calls = <<>>
    /\ discovered_hosts = <<>>
    /\ enc_stop = "none"
    /\ cap_frame_queue = <<>>
    /\ cap_last = NoPass
    /\ gp_last = NoGet
    /\ enc_at = "test"
    /\ enc_pending = <<>>
    /\ flush_at = "none"
    /\ flush_pending = <<>>
    /\ error_at = [capture |-> 0, encode |-> 0, stream |-> 0]
    /\ ses_app = "none"
    /\ ses_call = "none"
    /\ ses_step = 1
    /\ ses_dims = NoArgs
    /\ dm_args = NoArgs
    /\ dm_bytes = <<>>
    /\ dm_parsed = [called |-> FALSE, none |-> TRUE, message |-> <<>>]
    /\ disc_port = DiscoveryPort
    /\ disc_bound = 0
    /\ old_pumps = 0
    /\ host_restarts = 0
    /\ cap_got = NoGot
    /\ enc_frame = 0
    /\ enc_call_on = "no_call"
    /\ app_connected = FALSE
    /\ rcv_connected = FALSE

\* pynput and pyautogui both installed.
AllInputLibs ==
    /\ pynput_available = TRUE
    /\ pyautogui_available = TRUE

\* A machine on which every codec of the platform's lists works.
AllCodecs ==
    /\ enc_creatable = Range(EncoderCandidates(platform)) \cup {SoftwareEncoder}
    /\ enc_openable = enc_creatable
    /\ dec_creatable = Range(DecoderCandidates(platform)) \cup {SoftwareDecoder}

\* Any machine: each codec may be missing from the build, or present in the
\* build and unusable (no such hardware).
AnyCodecs ==
    /\ enc_creatable \in SUBSET (Range(EncoderCandidates(platform)) \cup {SoftwareEncoder})
    /\ enc_openable \in SUBSET enc_creatable
    /\ dec_creatable \in SUBSET Range(DecoderCandidates(platform))

Init ==
    /\ platform \in Platforms
    /\ AllCodecs
    /\ AllInputLibs
    /\ InitState

\* The transport depends on the platform through mtu_size alone: one
\* platform for each of its two values.
InitTransport ==
    /\ platform \in {"windows", "linux"}
    /\ AllCodecs
    /\ AllInputLibs
    /\ InitState

InitSendQueue ==
    /\ platform = "linux"
    /\ AllCodecs
    /\ AllInputLibs
    /\ InitState

InitCodec ==
    /\ platform \in Platforms
    /\ AnyCodecs
    /\ AllInputLibs
    /\ InitState

\* ----------------------------------------------------------------- encoder
\* CrossPlatformEncoder.__init__
Encoder__init__ ==
    /\ encoder_name = NoCodec
    /\ encoder_name' = _select_platform_encoder(platform, enc_creatable)
    /\ last_op' = NoOp
    /\ UNCHANGED <<ext_vars, env_vars, ctl_vars, inp_vars, codec_context, enc_start, enc_running,
                   enc_frame_queue, enc_packet_queue, enc_frame_count,
                   frames_in, str_vars, net, rx_vars>>

\* CrossPlatformEncoder.start_encoding: _setup_codec creates the context of
\* encoder_name and opens it; either may raise, and then nothing is started.
_setup_codec_and_run(name) ==
    IF name \in enc_openable
    THEN /\ codec_context' = "open"
         /\ enc_running' = TRUE
         /\ enc_start' = "ok"
    ELSE /\ codec_context' = IF name \in enc_creatable
                             THEN "created" ELSE "none"
         /\ enc_running' = FALSE
         /\ enc_start' = "raised"

start_encoding ==
    /\ encoder_name # NoCodec
    /\ enc_start = "none"
    /\ _setup_codec_and_run(encoder_name)
    /\ last_op' = NoOp
    /\ UNCHANGED <<ext_vars, env_vars, ctl_vars, inp_vars, encoder_name, enc_frame_queue, enc_packet_queue,
                   enc_frame_count, frames_in, str_vars, net, rx_vars>>

\* CrossPlatformEncoder.add_frame(frame), frame being the next captured one.
_add_next_frame ==
    LET frame == frames_in + 1 IN
       /\ frames_in' = frame
       /\ IF enc_running
          THEN /\ enc_frame_queue' =
                      put_if_not_full(enc_frame_queue, FrameQueueSize, frame)
               /\ last_op' = [op |-> "put", queue |-> "frame_queue",
                              item |-> frame,
                              full |-> full(enc_frame_queue, FrameQueueSize)]
          ELSE /\ enc_frame_queue' = enc_frame_queue
               /\ last_op' = NoOp

add_frame ==
    /\ encoder_name # NoCodec
    /\ frames_in < MaxFrames
    /\ _add_next_frame
    /\ UNCHANGED <<ext_vars, env_vars, ctl_vars, inp_vars, encoder_name, codec_context, enc_start,
                   enc_running, enc_packet_queue, enc_frame_count, str_vars,
                   net, rx_vars>>

\* One pass of CrossPlatformEncoder._encode_loop that gets a frame and for
\* which the codec returns `packets`.
encode_ok ==
    /\ enc_running
    /\ enc_frame_queue # <<>>
    /\ \E packets \in EncodeOutputs(Head(enc_frame_queue)) :
         /\ enc_packet_queue' =
                put_all(enc_packet_queue, EncPacketQueueSize, packets)
         /\ last_op' = IF packets = <<>> THEN NoOp
                       ELSE [op |-> "put", queue |-> "packet_queue",
                             item |-> packets[Len(packets)],
                             full |-> Len(enc_packet_queue) + Len(packets)
                                        > EncPacketQueueSize]
    /\ enc_frame_queue' = Tail(enc_frame_queue)
    /\ enc_frame_count' = enc_frame_count + 1
    /\ UNCHANGED <<ext_vars, env_vars, ctl_vars, inp_vars, encoder_name, codec_context, enc_start,
                   enc_running, frames_in, str_vars, net, rx_vars>>

\* One pass of _encode_loop for which the codec returns one packet of n
\* bytes.
encode_ok_sized(n) ==
    /\ enc_running
    /\ enc_frame_queue # <<>>
    /\ LET packet == [frame |-> Head(enc_frame_queue), part |-> 1,
                      data |-> MakePayload(n)]
       IN /\ enc_packet_queue' =
                 put_all(enc_packet_queue, EncPacketQueueSize, <<packet>>)
          /\ last_op' = [op |-> "put", queue |-> "packet_queue",
                         item |-> packet,
                         full |-> Len(enc_packet_queue) + 1
                                    > EncPacketQueueSize]
    /\ enc_frame_queue' = Tail(enc_frame_queue)
    /\ enc_frame_count' = enc_frame_count + 1
    /\ UNCHANGED <<ext_vars, env_vars, ctl_vars, inp_vars, encoder_name,
                   codec_context, enc_start, enc_running, frames_in,
                   str_vars, net, rx_vars>>

\* One pass of _encode_loop in which the codec raises: the frame is lost and
\* the loop goes on.
encode_error ==
    /\ enc_running
    /\ enc_frame_queue # <<>>
    /\ enc_frame_queue' = Tail(enc_frame_queue)
    /\ last_op' = NoOp
    /\ UNCHANGED <<ext_vars, env_vars, ctl_vars, inp_vars, encoder_name, codec_context, enc_start,
                   enc_running, enc_packet_queue, enc_frame_count, frames_in,
                   str_vars, net, rx_vars>>

\* What codec_context.encode(None) may return when stop_encoding flushes.
FlushOutputs == { <<>>, << Pkt(enc_frame_count, MaxOut + 1) >> }

\* CrossPlatformEncoder.stop_encoding(): running is cleared; an open codec
\* is flushed and each packet it returns goes to packet_queue with put(),
\* which waits while the queue is full; then the codec is closed. A codec
\* created and never opened raises on encode(None), which is swallowed.
_flush_and_close ==
    /\ enc_running' = FALSE
    /\ IF codec_context = "open"
       THEN \E packets \in FlushOutputs :
              IF Len(enc_packet_queue) + Len(packets) <= EncPacketQueueSize
              THEN /\ enc_packet_queue' = enc_packet_queue \o packets
                   /\ codec_context' = "closed"
                   /\ enc_stop' = "returned"
              ELSE /\ enc_stop' = "blocked"
                   /\ UNCHANGED <<enc_packet_queue, codec_context>>
       ELSE /\ codec_context' = IF codec_context = "none"
                                THEN "none" ELSE "closed"
            /\ enc_stop' = "returned"
            /\ UNCHANGED enc_packet_queue

stop_encoding ==
    /\ encoder_name # NoCodec
    /\ enc_stop = "none"
    /\ _flush_and_close
    /\ last_op' = NoOp
    /\ UNCHANGED <<but_est, env_vars, ctl_vars, inp_vars, encoder_name,
                   enc_start, enc_frame_queue, enc_frame_count, frames_in,
                   str_vars, net, rx_vars>>

\* A loop that never looks at its flag.
while_True(running) == TRUE

\* The test at the top of every pass of the capture, encode, streaming and
\* control loops: `while self.running`.
while_running(running) == running

\* _encode_loop, first half of a pass: running is tested, a frame is taken
\* from frame_queue and the codec returns `packets`, which the encode thread
\* now holds.
_encode_loop_take ==
    /\ enc_running
    /\ enc_at = "test"
    /\ enc_frame_queue # <<>>
    /\ codec_context = "open"
    /\ \E packets \in EncodeOutputs(Head(enc_frame_queue)) :
         enc_pending' = packets
    /\ enc_at' = "put"
    /\ enc_frame_queue' = Tail(enc_frame_queue)
    /\ last_op' = NoOp
    /\ UNCHANGED <<but_pq, flush_at, flush_pending, env_vars, ctl_vars,
                   inp_vars, encoder_name, codec_context, enc_start,
                   enc_running, enc_packet_queue, enc_frame_count, frames_in,
                   str_vars, net, rx_vars>>

\* _encode_loop, second half of a pass: one turn of `for packet in
\* packets`, put_nowait unless packet_queue is full.
_encode_loop_put ==
    /\ enc_at = "put"
    /\ enc_pending # <<>>
    /\ enc_packet_queue' = put_all(enc_packet_queue, EncPacketQueueSize,
                                   << Head(enc_pending) >>)
    /\ enc_pending' = Tail(enc_pending)
    /\ last_op' = [op |-> "put", queue |-> "packet_queue",
                   item |-> Head(enc_pending),
                   full |-> Len(enc_packet_queue) >= EncPacketQueueSize]
    /\ UNCHANGED <<but_pq, enc_at, flush_at, flush_pending, env_vars,
                   ctl_vars, inp_vars, encoder_name, codec_context,
                   enc_start, enc_running, enc_frame_queue, enc_frame_count,
                   frames_in, str_vars, net, rx_vars>>

\* _encode_loop, end of a pass: frame_count is advanced and the loop goes
\* back to its test.
_encode_loop_next ==
    /\ enc_at = "put"
    /\ enc_pending = <<>>
    /\ enc_at' = "test"
    /\ enc_frame_count' = enc_frame_count + 1
    /\ last_op' = NoOp
    /\ UNCHANGED <<but_pq, enc_pending, flush_at, flush_pending, env_vars,
                   ctl_vars, inp_vars, encoder_name, codec_context,
                   enc_start, enc_running, enc_frame_queue, enc_packet_queue,
                   frames_in, str_vars, net, rx_vars>>

\* stop_encoding, first half, in the caller's thread: running is cleared
\* and an open codec is flushed with encode(None); the encode thread is not
\* joined.
stop_encoding_flush ==
    /\ encoder_name # NoCodec
    /\ flush_at = "none"
    /\ enc_running' = FALSE
    /\ IF codec_context = "open"
       THEN /\ \E packets \in FlushOutputs : flush_pending' = packets
            /\ flush_at' = "put"
            /\ UNCHANGED codec_context
       ELSE /\ codec_context' = IF codec_context = "none"
                                THEN "none" ELSE "closed"
            /\ flush_at' = "returned"
            /\ UNCHANGED flush_pending
    /\ last_op' = NoOp
    /\ UNCHANGED <<but_pq, enc_at, enc_pending, env_vars, ctl_vars,
                   inp_vars, encoder_name, enc_start, enc_frame_queue,
                   enc_packet_queue, enc_frame_count, frames_in, str_vars,
                   net, rx_vars>>

\* stop_encoding, one turn of `for packet in packets`: put(packet), which
\* goes on only when packet_queue has room.
stop_encoding_put ==
    /\ flush_at = "put"
    /\ flush_pending # <<>>
    /\ Len(enc_packet_queue) < EncPacketQueueSize
    /\ enc_packet_queue' = Append(enc_packet_queue, Head(flush_pending))
    /\ flush_pending' = Tail(flush_pending)
    /\ last_op' = [op |-> "put", queue |-> "packet_queue",
                   item |-> Head(flush_pending), full |-> FALSE]
    /\ UNCHANGED <<but_pq, enc_at, enc_pending, flush_at, env_vars,
                   ctl_vars, inp_vars, encoder_name, codec_context,
                   enc_start, enc_running, enc_frame_queue, enc_frame_count,
                   frames_in, str_vars, net, rx_vars>>

\* stop_encoding, the end: codec_context.close().
stop_encoding_close ==
    /\ flush_at = "put"
    /\ flush_pending = <<>>
    /\ codec_context' = "closed"
    /\ flush_at' = "returned"
    /\ last_op' = NoOp
    /\ UNCHANGED <<but_pq, enc_at, enc_pending, flush_pending, env_vars,
                   ctl_vars, inp_vars, encoder_name, enc_start, enc_running,
                   enc_frame_queue, enc_packet_queue, enc_frame_count,
                   frames_in, str_vars, net, rx_vars>>

\* _encode_loop tests `while self.running` and finds it false.
_encode_loop_exit ==
    /\ enc_start = "ok"
    /\ enc_at = "test"
    /\ ~while_running(enc_running)
    /\ enc_at' = "ended"
    /\ UNCHANGED <<but_pq, enc_pending, flush_at, flush_pending, pipe_vars,
                   ctl_vars, inp_vars>>

\* What becomes of a loop whose pass has raised, if nothing in the loop
\* catches the exception: the thread ends.
propagate(at) == "ended"

\* The three host loops wrap each pass in `try: ... except Exception as e:
\* print(...); time.sleep(0.001)` inside the while: the thread is where it
\* was and goes to the next test of running.
except_Exception(at) == at

\* _encode_loop, the start of a pass: running is tested and found true and
\* frame_queue.get returns a frame, which the encode thread now holds.
_encode_loop_get ==
    /\ while_running(enc_running)
    /\ enc_at = "test"
    /\ enc_frame_queue # <<>>
    /\ enc_frame' = Head(enc_frame_queue)
    /\ enc_frame_queue' = Tail(enc_frame_queue)
    /\ enc_at' = "encode"
    /\ last_op' = NoOp
    /\ UNCHANGED <<but_pq_cc, enc_call_on, enc_pending, flush_at,
                   flush_pending, env_vars, ctl_vars, inp_vars, encoder_name,
                   codec_context, enc_start, enc_running, enc_packet_queue,
                   enc_frame_count, frames_in, str_vars, net, rx_vars>>

\* _encode_loop: the encode thread enters self.codec_context.encode(av_frame).
\* Nothing is tested or locked between frame_queue.get and this call.
_encode_loop_encode ==
    /\ enc_at = "encode"
    /\ enc_at' = "in_codec"
    /\ enc_call_on' = codec_context
    /\ UNCHANGED <<but_pq_cc, enc_frame, enc_pending, flush_at, flush_pending,
                   pipe_vars, ctl_vars, inp_vars>>

\* _encode_loop: codec_context.encode(av_frame) ends. On a context that was
\* open and undisturbed throughout it returns packets; on one that was
\* closed, or that stop_encoding flushed or closed meanwhile, what the
\* codec library does is not defined: the call returns packets or raises,
\* and the except clause of the loop handles what is raised.
_encode_loop_encoded ==
    /\ enc_at = "in_codec"
    /\ \E raises \in BOOLEAN, packets \in EncodeOutputs(enc_frame) :
         /\ raises => (enc_call_on # "open" \/ codec_context # "open"
                        \/ flush_at # "none")
         /\ IF raises
            THEN /\ enc_at' = except_Exception("test")
                 /\ enc_pending' = <<>>
            ELSE /\ enc_at' = "put"
                 /\ enc_pending' = packets
    /\ enc_frame' = 0
    /\ UNCHANGED <<but_pq_cc, enc_call_on, flush_at, flush_pending, pipe_vars,
                   ctl_vars, inp_vars>>

\* stop_encoding in the caller's thread: running is cleared and, the codec
\* context being open, codec_context.encode(None) is entered; the encode
\* thread is not joined and no lock is taken.
stop_encoding_enter ==
    /\ encoder_name # NoCodec
    /\ flush_at = "none"
    /\ enc_running' = FALSE
    /\ IF codec_context = "open"
       THEN /\ flush_at' = "flushing"
            /\ UNCHANGED codec_context
       ELSE /\ codec_context' = IF codec_context = "none"
                                THEN "none" ELSE "closed"
            /\ flush_at' = "returned"
    /\ last_op' = NoOp
    /\ UNCHANGED <<but_pq, enc_at, enc_pending, flush_pending, env_vars,
                   ctl_vars, inp_vars, encoder_name, enc_start,
                   enc_frame_queue, enc_packet_queue, enc_frame_count,
                   frames_in, str_vars, net, rx_vars>>

\* stop_encoding: codec_context.encode(None) returns the packets the codec
\* still held.
stop_encoding_flushed ==
    /\ flush_at = "flushing"
    /\ \E packets \in FlushOutputs : flush_pending' = packets
    /\ flush_at' = "put"
    /\ UNCHANGED <<but_pq, enc_at, enc_pending, pipe_vars, ctl_vars,
                   inp_vars>>

\* One pass of _encode_loop in which from_ndarray, reformat or
\* codec_context.encode raises: the frame is lost.
_encode_loop_raises ==
    /\ enc_running
    /\ enc_at = "test"
    /\ enc_frame_queue # <<>>
    /\ enc_frame_queue' = Tail(enc_frame_queue)
    /\ enc_at' = except_Exception(enc_at)
    /\ error_at' = [error_at EXCEPT !.encode = enc_frame_count + 1]
    /\ last_op' = NoOp
    /\ UNCHANGED <<but_pq_fail, enc_pending, flush_at, flush_pending,
                   env_vars, ctl_vars, inp_vars, encoder_name, codec_context,
                   enc_start, enc_running, enc_packet_queue, enc_frame_count,
                   frames_in, str_vars, net, rx_vars>>

\* The threads that are inside a loop of puts to the encoder's packet_queue.
packet_queue_pushers ==
    (IF enc_pending # <<>> THEN {"encode_thread"} ELSE {})
        \cup (IF flush_pending # <<>> THEN {"stop_encoding"} ELSE {})

\* CrossPlatformEncoder.get_packet() on a queue that holds a packet.
get_packet ==
    /\ encoder_name # NoCodec
    /\ enc_packet_queue # <<>>
    /\ enc_packet_queue' = Tail(enc_packet_queue)
    /\ last_op' = [op |-> "get", queue |-> "packet_queue",
                   item |-> Head(enc_packet_queue), full |-> FALSE]
    /\ UNCHANGED <<ext_vars, env_vars, ctl_vars, inp_vars, encoder_name, codec_context, enc_start,
                   enc_running, enc_frame_queue, enc_frame_count, frames_in,
                   str_vars, net, rx_vars>>

\* queue.Queue.get(): the caller waits while the queue is empty.
get(q) ==
    [waits |-> q = <<>>, raised |-> FALSE,
     item |-> IF q = <<>> THEN NoPacket ELSE Head(q),
     q |-> IF q = <<>> THEN q ELSE Tail(q)]

\* queue.Queue.get_nowait(): queue.Empty is raised on an empty queue.
get_nowait(q) ==
    [waits |-> FALSE, raised |-> q = <<>>,
     item |-> IF q = <<>> THEN NoPacket ELSE Head(q),
     q |-> IF q = <<>> THEN q ELSE Tail(q)]

\* CrossPlatformEncoder.get_packet() on an empty queue: queue.Empty is
\* caught and None returned.
get_packet_none ==
    /\ encoder_name # NoCodec
    /\ enc_packet_queue = <<>>
    /\ LET r == get_nowait(enc_packet_queue) IN
       /\ enc_packet_queue' = r.q
       /\ gp_last' = [waits |-> r.waits, item |-> r.item, called |-> TRUE]
    /\ last_op' = NoOp
    /\ UNCHANGED <<but_gp, env_vars, ctl_vars, inp_vars, encoder_name,
                   codec_context, enc_start, enc_running, enc_frame_queue,
                   enc_frame_count, frames_in, str_vars, net, rx_vars>>

\* --------------------------------------------------------------- transport
\* EnhancedStreamer.start_streaming(client_ip). The video socket opens;
\* _start_control_server binds the control port (which may raise: the call
\* then returns False with running unset) and starts the control thread,
\* whose first test of `running` comes before or after start_streaming sets
\* it; then the streaming thread is started.
_start_sockets_and_threads ==
    /\ client_address' = TRUE
    /\ video_socket' = "open"
    /\ \E bind_ok \in BOOLEAN, sees_running \in BOOLEAN :
         IF bind_ok
         THEN /\ control_socket' = "bound"
              /\ ctrl_thread' = IF sees_running THEN "running" ELSE "exited"
              /\ str_running' = TRUE
              /\ stream_thread' = "running"
              /\ str_start' = "ok"
         ELSE /\ control_socket' = "unbound"
              /\ ctrl_thread' = "none"
              /\ str_running' = FALSE
              /\ stream_thread' = "none"
              /\ str_start' = "failed"

start_streaming ==
    /\ str_start = "none"
    /\ _start_sockets_and_threads
    /\ last_op' = NoOp
    /\ UNCHANGED <<but_thr, str_stop, env_vars, inp_vars, enc_vars, mtu_size, str_packet_queue,
                   sent_packets, sent_bytes, packets_in, frag_seqs,
                   sendto_log, last_packet, net, rx_vars, ctrl_net,
                   ctrl_replies, ctrl_arrived, injected>>

\* EnhancedStreamer.send_packet(packet)
send_packet(packet) ==
    /\ packets_in' = packets_in + 1
    /\ IF str_running
       THEN /\ str_packet_queue' =
                   put_if_not_full(str_packet_queue, StrPacketQueueSize, packet)
            /\ last_op' = [op |-> "put", queue |-> "send_queue",
                           item |-> packet,
                           full |-> full(str_packet_queue, StrPacketQueueSize)]
       ELSE /\ str_packet_queue' = str_packet_queue
            /\ last_op' = NoOp
    /\ UNCHANGED <<ext_vars, env_vars, ctl_vars, inp_vars, enc_vars, mtu_size, str_running, video_socket,
                   client_address, sent_packets, sent_bytes, frag_seqs,
                   sendto_log, last_packet, net, rx_vars>>

\* send_packet with an encoded packet of any of the sizes of PayloadLens.
send_packet_any ==
    /\ packets_in < MaxPackets
    /\ \E n \in PayloadLens(mtu_size) :
         send_packet([frame |-> packets_in + 1, part |-> 1,
                      data |-> MakePayload(n)])

\* send_packet with a small packet, as often as it takes to fill the queue.
send_packet_small ==
    /\ packets_in < MaxBurst
    /\ send_packet(Pkt(packets_in + 1, 1))

\* One pass of EnhancedStreamer._streaming_loop that gets a packet.
streaming_loop ==
    /\ str_running
    /\ str_packet_queue # <<>>
    /\ LET packet == Head(str_packet_queue)
           packet_data == to_bytes(packet)
           fragmented == Len(packet_data) > mtu_size
           n == num_fragments(Len(packet_data), mtu_size)
           raises == fragmented /\ ~pack_ok(PacketSequence(packet), n - 1, n)
           ds == IF raises THEN <<>> ELSE DatagramsFor(packet, mtu_size)
       IN /\ str_packet_queue' = Tail(str_packet_queue)
          /\ last_packet' = packet
          /\ sendto_log' = IF client_address /\ video_socket # "none"
                           THEN ds ELSE <<>>
          /\ frag_seqs' = IF fragmented /\ ~raises
                          THEN Append(frag_seqs, unpack_H(ds[1], 1))
                          ELSE frag_seqs
          /\ net' = SendAll(net, ds, client_address /\ video_socket = "open")
          /\ sent_packets' = IF raises THEN sent_packets ELSE sent_packets + 1
          /\ sent_bytes' = IF raises THEN sent_bytes
                           ELSE sent_bytes + Len(packet_data)
    /\ last_op' = [op |-> "get", queue |-> "send_queue",
                   item |-> Head(str_packet_queue), full |-> FALSE]
    /\ UNCHANGED <<ext_vars, env_vars, ctl_vars, inp_vars, enc_vars, mtu_size, str_running, video_socket,
                   client_address, packets_in, rx_vars>>

\* EnhancedStreamer.stop_streaming(): the flag is cleared and the sockets
\* that exist are closed; the threads are not waited for.
_clear_and_close ==
    /\ str_running' = FALSE
    /\ video_socket' = IF video_socket = "none" THEN "none" ELSE "closed"
    /\ control_socket' = IF control_socket = "none" THEN "none" ELSE "closed"
    /\ str_stop' = "returned"

stop_streaming ==
    /\ str_stop = "none"
    /\ _clear_and_close
    /\ last_op' = NoOp
    /\ UNCHANGED <<but_thr, stream_thread, env_vars, inp_vars, enc_vars,
                   mtu_size, str_packet_queue, client_address, sent_packets,
                   sent_bytes, packets_in, frag_seqs, sendto_log, last_packet,
                   net, rx_vars, str_start, ctrl_thread, ctrl_net,
                   ctrl_replies, ctrl_arrived, injected>>

\* One pass of _streaming_loop in which the send fails. socket.sendto
\* raising is caught in _send_packet (BlockingIOError dropped silently, any
\* other exception printed) and the pass counts the packet as sent; anything
\* raised outside _send_packet is caught by the loop and the packet is not
\* counted.
SendFailures == {"would_block", "send_error", "raised_in_pass"}

_streaming_loop_send_fails ==
    /\ stream_thread = "running"
    /\ str_running
    /\ str_packet_queue # <<>>
    /\ \E failure \in SendFailures :
         LET packet == Head(str_packet_queue)
             counted == failure # "raised_in_pass"
         IN /\ str_packet_queue' = Tail(str_packet_queue)
            /\ last_packet' = packet
            /\ sendto_log' = <<>>
            /\ sent_packets' = IF counted THEN sent_packets + 1
                                ELSE sent_packets
            /\ sent_bytes' = IF counted
                              THEN sent_bytes + Len(to_bytes(packet))
                              ELSE sent_bytes
            /\ stream_thread' = IF counted THEN stream_thread
                                 ELSE except_Exception(stream_thread)
            /\ error_at' = [error_at EXCEPT !.stream = packet.frame + 1]
    /\ last_op' = [op |-> "get", queue |-> "send_queue",
                   item |-> Head(str_packet_queue), full |-> FALSE]
    /\ UNCHANGED <<but_thr_fail, str_stop, env_vars, ctl_vars, inp_vars,
                   enc_vars, mtu_size, str_running, video_socket,
                   client_address, packets_in, frag_seqs, net, rx_vars>>

\* _streaming_loop tests `while self.running` and finds it false.
streaming_loop_exit ==
    /\ stream_thread = "running"
    /\ ~while_running(str_running)
    /\ stream_thread' = "exited"
    /\ UNCHANGED <<but_thr, str_stop, pipe_vars, ctl_vars, inp_vars>>

\* _control_loop tests `while self.running` and finds it false.
control_loop_exit ==
    /\ ctrl_thread = "running"
    /\ ~while_running(str_running)
    /\ ctrl_thread' = "exited"
    /\ UNCHANGED <<ext_vars, pipe_vars, str_start, control_socket, ctrl_net,
                   ctrl_replies, ctrl_arrived, injected, inp_vars>>

\* ------------------------------------------------- network and receiver
\* The network loses a datagram in flight.
net_lose ==
    /\ \E i \in 1..Len(net) : net' = RemoveAt(net, i)
    /\ UNCHANGED <<ext_vars, env_vars, ctl_vars, inp_vars, enc_vars, str_vars, rx_vars, last_op>>

\* A datagram in flight, any of them, arrives at the client's video port.
\* The receiver reads the port through av.open("udp://..."): every datagram's
\* bytes go to the demuxer as they are; nothing is kept for reassembly.
net_deliver ==
    /\ \E i \in 1..Len(net) :
         /\ net' = RemoveAt(net, i)
         /\ rx_unit' = IF rx_connected THEN net[i] ELSE rx_unit
    /\ UNCHANGED <<ext_vars, env_vars, ctl_vars, inp_vars, enc_vars, str_vars, decoder_name, rx_state,
                   rx_connected, last_op>>

\* CrossPlatformVideoReceiver.__init__
Receiver__init__ ==
    /\ rx_state = "none"
    /\ rx_state' = "init"
    /\ decoder_name' = _get_platform_decoder(platform, dec_creatable)
    /\ UNCHANGED <<ext_vars, env_vars, ctl_vars, inp_vars, enc_vars, str_vars, net, rx_connected, rx_unit,
                   last_op>>

\* CrossPlatformVideoReceiver.connect(host_ip): av.open may raise; a hardware
\* decoder that cannot be installed on the stream gives way to "h264".
connect ==
    /\ rx_state = "init"
    /\ \E open_ok \in BOOLEAN, install_ok \in BOOLEAN :
         IF open_ok
         THEN /\ rx_state' = "connected"
              /\ rx_connected' = TRUE
              /\ rx_loop' = "running"
              /\ decoder_name' =
                    IF decoder_name # SoftwareDecoder
                       /\ ~(decoder_name \in dec_creatable /\ install_ok)
                    THEN SoftwareDecoder ELSE decoder_name
         ELSE /\ rx_state' = "failed"
              /\ rx_connected' = FALSE
              /\ decoder_name' = decoder_name
              /\ rx_loop' = rx_loop
    /\ UNCHANGED <<rx_end_cause, rx_frame_queue, rx_current_frame, rx_decoded,
                   rx_returned, but_rxf, env_vars, ctl_vars, inp_vars, enc_vars, str_vars, net, rx_unit, last_op>>

\* One decoded frame in _receive_loop: it becomes current_frame and is put
\* in frame_queue unless the queue is full.
decode_frame ==
    /\ rx_loop = "running"
    /\ rx_connected
    /\ rx_decoded < MaxRxFrames
    /\ rx_decoded' = rx_decoded + 1
    /\ rx_current_frame' = rx_decoded + 1
    /\ rx_frame_queue' = put_if_not_full(rx_frame_queue, RxFrameQueueSize,
                                         rx_decoded + 1)
    /\ UNCHANGED <<pipe_vars, ctl_vars, inp_vars, rx_loop, rx_end_cause,
                   rx_returned, but_rxf>>

\* CrossPlatformVideoReceiver.get_frame(): every queued frame in turn becomes
\* current_frame, and current_frame is returned.
get_frame ==
    /\ rx_state # "none"
    /\ rx_frame_queue' = <<>>
    /\ rx_current_frame' = IF rx_frame_queue = <<>> THEN rx_current_frame
                           ELSE rx_frame_queue[Len(rx_frame_queue)]
    /\ rx_returned' = [frame |-> rx_current_frame', decoded |-> rx_decoded]
    /\ UNCHANGED <<pipe_vars, ctl_vars, inp_vars, rx_loop, rx_end_cause,
                   rx_decoded, but_rxf>>

\* The network source breaks or ends: demux raises or is exhausted, the
\* except clause prints, and _receive_loop returns.
source_ends ==
    /\ rx_loop = "running"
    /\ rx_connected
    /\ rx_loop' = "ended"
    /\ rx_end_cause' = "source"
    /\ UNCHANGED <<pipe_vars, ctl_vars, inp_vars, rx_frame_queue,
                   rx_current_frame, rx_decoded, rx_returned, but_rxf>>

\* Something raises while one packet is worked on: packet.decode(),
\* to_ndarray or the on_frame callback. The only try of _receive_loop is
\* around its for loop, so the except clause prints and the function
\* returns.
packet_raises ==
    /\ rx_loop = "running"
    /\ rx_connected
    /\ rx_decoded < MaxRxFrames
    /\ rx_loop' = "ended"
    /\ rx_end_cause' = "packet"
    /\ UNCHANGED <<pipe_vars, ctl_vars, inp_vars, rx_frame_queue,
                   rx_current_frame, rx_decoded, rx_returned, but_rxf>>

\* CrossPlatformVideoReceiver.disconnect(): connected is cleared and the
\* input stream closed.
rx_disconnect ==
    /\ rx_state = "connected"
    /\ rx_connected
    /\ rx_connected' = FALSE
    /\ UNCHANGED <<env_vars, enc_vars, str_vars, net, decoder_name, rx_state,
                   rx_unit, last_op, ctl_vars, inp_vars, ext_vars>>

\* _receive_loop finds connected cleared (or its stream closed) and returns.
receive_loop_exit ==
    /\ rx_loop = "running"
    /\ ~rx_connected
    /\ rx_loop' = "ended"
    /\ rx_end_cause' = "disconnect"
    /\ UNCHANGED <<pipe_vars, ctl_vars, inp_vars, rx_frame_queue,
                   rx_current_frame, rx_decoded, rx_returned, but_rxf>>

\* CrossPlatformVideoReceiver.get_stats()['connected']
get_stats_connected == rx_connected

\* ------------------------------------------ discovery (Client/main.py)
HostNames == {"hostA", "hostB"}
Addrs == {"10.0.0.1", "10.0.0.2"}

\* A datagram on the discovery port, by what json.loads makes of it: bytes
\* that are not JSON, a JSON value that is no object, or an object with its
\* type field (absent: "") and host_name; `addr` is the sender's address.
Broadcast(host_name, addr) ==
    [json |-> TRUE, object |-> TRUE, type |-> "discovery",
     host_name |-> host_name, addr |-> addr]
BadDatagrams ==
    { [json |-> FALSE, object |-> FALSE, type |-> "", host_name |-> "",
       addr |-> "10.0.0.1"],
      [json |-> TRUE, object |-> FALSE, type |-> "", host_name |-> "",
       addr |-> "10.0.0.1"],
      [json |-> TRUE, object |-> TRUE, type |-> "", host_name |-> "hostA",
       addr |-> "10.0.0.1"],
      [json |-> TRUE, object |-> TRUE, type |-> "hello", host_name |-> "hostA",
       addr |-> "10.0.0.1"] }
DiscoveryDatagrams ==
    { Broadcast(h, a) : h \in HostNames, a \in Addrs } \cup BadDatagrams

\* DiscoveryProtocol.parse_broadcast_message(data): json.loads raises on
\* bytes that are not JSON and message.get raises on a value that is no
\* object; the bare except turns both into None, as is any other type.
parse_any_object(d) == d.json /\ d.object
parse_broadcast_message(d) ==
    d.json /\ d.object /\ d.type = "discovery"

\* NetworkDiscovery.start_discovery(on_host_discovered): the bind falls back
\* to an ephemeral port when the discovery port is taken.
\* The ports the system hands out for a bind to port 0.
EphemeralPorts == {49152, 49153}

\* A fall-back that leaves self.port as it was.
keep_port(bound_port, port) == port

\* After the fall-back bind: self.port = self.socket.getsockname()[1].
getsockname_port(bound_port, port) == bound_port

start_discovery ==
    /\ disc_socket = "none"
    /\ disc_running' = TRUE
    /\ \E bind_ok \in BOOLEAN, free \in EphemeralPorts :
         IF bind_ok
         THEN /\ disc_socket' = "bound"
              /\ disc_bound' = disc_port
              /\ UNCHANGED disc_port
         ELSE /\ disc_socket' = "ephemeral"
              /\ disc_bound' = free
              /\ disc_port' = getsockname_port(free, disc_port)
    /\ disc_loop' = "running"
    /\ UNCHANGED <<pipe_vars, ctl_vars, inp_vars, but_disc_dp, disc_net,
                   disc_sent, disc_log, disc_calls, discovered_hosts>>

\* Some machine sends a datagram to the discovery port: a host's
\* broadcast_loop its announcement, anyone anything else.
broadcast ==
    /\ disc_sent < MaxBroadcasts
    /\ disc_sent' = disc_sent + 1
    /\ \E d \in DiscoveryDatagrams : disc_net' = Append(disc_net, d)
    /\ UNCHANGED <<pipe_vars, ctl_vars, inp_vars, but_disc, disc_running,
                   disc_socket, disc_loop, disc_log, disc_calls,
                   discovered_hosts>>

\* A datagram to the discovery port is lost or finds no socket there.
disc_lose ==
    /\ disc_net # <<>>
    /\ \E i \in DOMAIN disc_net : disc_net' = RemoveAt(disc_net, i)
    /\ UNCHANGED <<pipe_vars, ctl_vars, inp_vars, but_disc, disc_running,
                   disc_socket, disc_loop, disc_sent, disc_log, disc_calls,
                   discovered_hosts>>

\* CrossPlatformClientGUI.on_host_discovered(host_info, ip)
on_host_discovered(hosts, host_name, ip) ==
    IF <<host_name, ip>> \in Range(hosts) THEN hosts
    ELSE Append(hosts, <<host_name, ip>>)

\* One pass of _discovery_loop: recvfrom, parse, and the callback for a
\* message that parsed.
discovery_loop ==
    /\ disc_loop = "running"
    /\ disc_running
    /\ disc_socket = "bound"
    /\ disc_net # <<>>
    /\ \E i \in DOMAIN disc_net :
         LET d == disc_net[i] IN
         /\ disc_net' = RemoveAt(disc_net, i)
         /\ disc_log' = Append(disc_log, d)
         /\ IF parse_broadcast_message(d)
            THEN /\ disc_calls' = Append(disc_calls, <<d.host_name, d.addr>>)
                 /\ discovered_hosts' =
                       on_host_discovered(discovered_hosts, d.host_name, d.addr)
            ELSE UNCHANGED <<disc_calls, discovered_hosts>>
    /\ UNCHANGED <<pipe_vars, ctl_vars, inp_vars, but_disc, disc_running,
                   disc_socket, disc_loop, disc_sent>>

\* NetworkDiscovery.stop_discovery()
stop_discovery ==
    /\ disc_running
    /\ disc_running' = FALSE
    /\ disc_socket' = "closed"
    /\ UNCHANGED <<pipe_vars, ctl_vars, inp_vars, but_disc, disc_loop, disc_net,
                   disc_sent, disc_log, disc_calls, discovered_hosts>>

\* _discovery_loop finds running cleared and returns.
discovery_loop_exit ==
    /\ disc_loop = "running"
    /\ ~disc_running
    /\ disc_loop' = "ended"
    /\ UNCHANGED <<pipe_vars, ctl_vars, inp_vars, but_disc, disc_running,
                   disc_socket, disc_net, disc_sent, disc_log, disc_calls,
                   discovered_hosts>>

\* ------------------------- DiscoveryProtocol: the bytes of a message
\* Text is a sequence of characters, one string each; "U+00E9" stands for
\* the one character e-acute, "LF" for the line feed.
MaxNameLen == 2
NameChars == {"a", "\"", "\\", "LF", "U+00E9"}
Digits == <<"0", "1", "2", "3", "4", "5", "6", "7", "8", "9">>

Strings(chars, n) == UNION { [1..k -> chars] : k \in 0..n }
NameStrings == Strings(NameChars, MaxNameLen)
IpStrings == { <<>>, <<"1", ".", "1">>, <<"\"">>, <<"\\", "\"">>,
               <<"a", "\"", ",">> }
Ports == {0, 80, DiscoveryPort, 65535}
\* time.time(), as whole seconds and tenths.
Timestamps == { [whole |-> 0, tenths |-> 0], [whole |-> 17, tenths |-> 5] }

\* A JSON value of a discovery message: a string, an int or a float.
JStr(chars) == [kind |-> "str", chars |-> chars, whole |-> 0, tenths |-> 0]
JInt(n) == [kind |-> "int", chars |-> <<>>, whole |-> n, tenths |-> 0]
JFloat(t) == [kind |-> "float", chars |-> <<>>, whole |-> t.whole,
              tenths |-> t.tenths]

K_type == <<"t", "y", "p", "e">>
K_host_name == <<"h", "o", "s", "t", "_", "n", "a", "m", "e">>
K_host_ip == <<"h", "o", "s", "t", "_", "i", "p">>
K_port == <<"p", "o", "r", "t">>
K_timestamp == <<"t", "i", "m", "e", "s", "t", "a", "m", "p">>
V_discovery == <<"d", "i", "s", "c", "o", "v", "e", "r", "y">>

\* A writer that copies the characters of a string as they are.
unescaped(c) == <<c>>

\* json.dumps on one character of a string (ensure_ascii is on).
escape(c) ==
    CASE c = "\"" -> <<"\\", "\"">>
      [] c = "\\" -> <<"\\", "\\">>
      [] c = "LF" -> <<"\\", "n">>
      [] c = "U+00E9" -> <<"\\", "u", "0", "0", "e", "9">>
      [] OTHER -> <<c>>

RECURSIVE dumps_chars(_)
dumps_chars(chars) ==
    IF chars = <<>> THEN <<>>
    ELSE escape(Head(chars)) \o dumps_chars(Tail(chars))

RECURSIVE dumps_nat(_)
dumps_nat(n) ==
    IF n < 10 THEN << Digits[n + 1] >>
    ELSE dumps_nat(n \div 10) \o << Digits[(n % 10) + 1] >>

\* json.dumps of one value.
dumps_value(v) ==
    CASE v.kind = "str" -> <<"\"">> \o dumps_chars(v.chars) \o <<"\"">>
      [] v.kind = "int" -> dumps_nat(v.whole)
      [] OTHER -> dumps_nat(v.whole) \o <<".">> \o dumps_nat(v.tenths)

\* json.dumps of a dict, given as its items in insertion order: `{`, the
\* items as "key": value joined by `, `, `}`.
RECURSIVE dumps_items(_)
dumps_items(items) ==
    IF items = <<>> THEN <<>>
    ELSE dumps_value(JStr(items[1][1])) \o <<":", " ">>
           \o dumps_value(items[1][2])
           \o (IF Len(items) = 1 THEN <<>> ELSE <<",", " ">>)
           \o dumps_items(Tail(items))
dumps(items) == <<"{">> \o dumps_items(items) \o <<"}">>

\* DiscoveryProtocol.create_broadcast_message(host_name, host_ip, port),
\* called at time `timestamp`: the bytes of the JSON text, which is ASCII.
create_broadcast_message(host_name, host_ip, port, timestamp) ==
    dumps(<< <<K_type, JStr(V_discovery)>>,
             <<K_host_name, JStr(host_name)>>,
             <<K_host_ip, JStr(host_ip)>>,
             <<K_port, JInt(port)>>,
             <<K_timestamp, JFloat(timestamp)>> >>)

\* json.loads, for what an object of strings and numbers needs. A scan
\* gives [ok, value, next]: the value read and the index after it.
ScanFail == [ok |-> FALSE, value |-> JInt(0), next |-> 0]

IsDigit(c) == \E i \in DOMAIN Digits : Digits[i] = c
DigitValue(c) == (CHOOSE i \in DOMAIN Digits : Digits[i] = c) - 1

\* The characters of a string literal from index i, after its opening quote.
RECURSIVE scan_string(_, _, _)
scan_string(text, i, acc) ==
    IF i > Len(text) THEN ScanFail
    ELSE IF text[i] = "\""
    THEN [ok |-> TRUE, value |-> JStr(acc), next |-> i + 1]
    ELSE IF text[i] = "LF" THEN ScanFail
    ELSE IF text[i] # "\\" THEN scan_string(text, i + 1, Append(acc, text[i]))
    ELSE IF i + 1 > Len(text) THEN ScanFail
    ELSE IF text[i + 1] = "\"" THEN scan_string(text, i + 2, Append(acc, "\""))
    ELSE IF text[i + 1] = "\\"
    THEN scan_string(text, i + 2, Append(acc, "\\"))
    ELSE IF text[i + 1] = "n" THEN scan_string(text, i + 2, Append(acc, "LF"))
    ELSE IF /\ text[i + 1] = "u"
            /\ i + 5 <= Len(text)
            /\ SubSeq(text, i + 2, i + 5) = <<"0", "0", "e", "9">>
    THEN scan_string(text, i + 6, Append(acc, "U+00E9"))
    ELSE ScanFail

\* The digits from index i on, as a number.
RECURSIVE scan_digits(_, _, _)
scan_digits(text, i, acc) ==
    IF i <= Len(text) /\ IsDigit(text[i])
    THEN scan_digits(text, i + 1, acc * 10 + DigitValue(text[i]))
    ELSE [ok |-> TRUE, value |-> JInt(acc), next |-> i]

scan_number(text, i) ==
    IF i > Len(text) \/ ~IsDigit(text[i]) THEN ScanFail
    ELSE LET w == scan_digits(text, i, 0)
         IN  IF w.next <= Len(text) /\ text[w.next] = "."
             THEN IF w.next + 1 > Len(text) \/ ~IsDigit(text[w.next + 1])
                  THEN ScanFail
                  ELSE LET f == scan_digits(text, w.next + 1, 0)
                       IN  [ok |-> TRUE, next |-> f.next,
                            value |-> JFloat([whole |-> w.value.whole,
                                              tenths |-> f.value.whole])]
             ELSE w

scan_value(text, i) ==
    IF i > Len(text) THEN ScanFail
    ELSE IF text[i] = "\"" THEN scan_string(text, i + 1, <<>>)
    ELSE scan_number(text, i)

RECURSIVE skip_spaces(_, _)
skip_spaces(text, i) ==
    IF i <= Len(text) /\ text[i] = " " THEN skip_spaces(text, i + 1) ELSE i

\* The items of an object from index i on, after `{` or `,`; the text has
\* to end with the closing `}`.
RECURSIVE scan_items(_, _, _)
scan_items(text, i, acc) ==
    LET k == IF skip_spaces(text, i) <= Len(text)
                  /\ text[skip_spaces(text, i)] = "\""
             THEN scan_string(text, skip_spaces(text, i) + 1, <<>>)
             ELSE ScanFail
        c == skip_spaces(text, k.next)
        v == scan_value(text, skip_spaces(text, c + 1))
        e == skip_spaces(text, v.next)
    IN  IF ~k.ok \/ c > Len(text) \/ text[c] # ":" THEN ScanFail
        ELSE IF ~v.ok \/ e > Len(text) THEN ScanFail
        ELSE IF text[e] = ","
        THEN scan_items(text, e + 1, Append(acc, <<k.value.chars, v.value>>))
        ELSE IF text[e] = "}" /\ skip_spaces(text, e + 1) > Len(text)
        THEN [ok |-> TRUE, next |-> e + 1,
              value |-> Append(acc, <<k.value.chars, v.value>>)]
        ELSE [ok |-> FALSE, next |-> 0, value |-> <<>>]

\* json.loads(text) for an object: its items, or a failure (it raises).
loads(text) ==
    LET i == skip_spaces(text, 1)
    IN  IF i > Len(text) \/ text[i] # "{"
        THEN [ok |-> FALSE, value |-> <<>>]
        ELSE LET r == scan_items(text, i + 1, <<>>)
             IN  [ok |-> r.ok, value |-> IF r.ok THEN r.value ELSE <<>>]

\* dict.get(key): the value of the last item with that key, None (here a
\* string no text gives) when there is none.
JNone == [kind |-> "none", chars |-> <<>>, whole |-> 0, tenths |-> 0]
dict_get(items, key) ==
    LET at == { i \in DOMAIN items : items[i][1] = key }
    IN  IF at = {} THEN JNone
        ELSE items[CHOOSE i \in at : \A j \in at : j <= i][2]

\* DiscoveryProtocol.parse_broadcast_message(data) on bytes: the message
\* when json.loads gives an object whose type is 'discovery', else None.
parse_broadcast_bytes(data) ==
    LET message == loads(data)
    IN  IF message.ok /\ dict_get(message.value, K_type) = JStr(V_discovery)
        THEN [called |-> TRUE, none |-> FALSE, message |-> message.value]
        ELSE [called |-> TRUE, none |-> TRUE, message |-> <<>>]

\* A host makes its announcement.
make_message ==
    /\ dm_args = NoArgs
    /\ \E host_name \in NameStrings, host_ip \in IpStrings, port \in Ports,
          timestamp \in Timestamps :
         /\ dm_args' = <<host_name, host_ip, port, timestamp>>
         /\ dm_bytes' = create_broadcast_message(host_name, host_ip, port,
                                                  timestamp)
    /\ UNCHANGED <<but_dm, dm_parsed, pipe_vars, ctl_vars, inp_vars>>

\* A client parses the announcement it received.
parse_message ==
    /\ dm_args # NoArgs
    /\ ~dm_parsed.called
    /\ dm_parsed' = parse_broadcast_bytes(dm_bytes)
    /\ UNCHANGED <<but_dm, dm_args, dm_bytes, pipe_vars, ctl_vars, inp_vars>>

\* ------------------------------- CrossPlatformInputSender (Client/input.py)
\* set_scaling(display_width, display_height, stream_width, stream_height):
\* two assignments, each a division that raises ZeroDivisionError on 0.
_snd_scale(dw, dh, sw, sh) ==
    /\ snd_args' = <<dw, dh, sw, sh>>
    /\ snd_repeat' = (snd_args = <<dw, dh, sw, sh>>)
    /\ IF sw = 0
       THEN UNCHANGED <<snd_scale_x, snd_scale_y>>
       ELSE /\ snd_scale_x' = scale_factor(dw, sw)
            /\ IF sh = 0
               THEN UNCHANGED snd_scale_y
               ELSE snd_scale_y' = scale_factor(dh, sh)

snd_set_scaling(dw, dh, sw, sh) ==
    /\ _snd_scale(dw, dh, sw, sh)
    /\ UNCHANGED <<ext_vars, pipe_vars, ctl_vars, pynput_available, pyautogui_available,
                   snd_socket, snd_host_ip, snd_listeners, fwd_vars, cp_vars,
                   ev_vars>>

\* connect(host_ip): the socket opens and, with pynput, the listeners start.
_snd_open_and_listen ==
    /\ snd_host_ip' = TRUE
    /\ snd_socket' = "open"
    /\ snd_listeners' = IF pynput_available THEN "started" ELSE snd_listeners

snd_connect ==
    /\ snd_socket = "none"
    /\ _snd_open_and_listen
    /\ UNCHANGED <<ext_vars, pipe_vars, ctl_vars, pynput_available, pyautogui_available,
                   snd_scale_x, snd_scale_y, snd_args, snd_repeat, fwd_vars,
                   cp_vars, ev_vars>>

\* _send_input_event(event) at the end of a handler called with `raw`.
snd_send_input_event(raw, event) ==
    /\ events_in' = events_in + 1
    /\ last_handler' = "snd"
    /\ raw_event' = raw
    /\ IF snd_socket = "open" /\ snd_host_ip
       THEN /\ sent_event' = event
            /\ ctrl_net' = Append(ctrl_net, InputDatagram(event))
       ELSE /\ sent_event' = NoEvent
            /\ UNCHANGED ctrl_net
    /\ UNCHANGED <<ext_vars, pipe_vars, str_start, control_socket, ctrl_thread,
                   ctrl_replies, ctrl_arrived, injected, pynput_available,
                   pyautogui_available, snd_vars, fwd_vars, cp_vars>>

\* _on_mouse_move(x, y): the event takes x and y as the listener gave them.
snd_on_mouse_move(x, y) ==
    /\ snd_listeners = "started"
    /\ events_in < MaxEvents
    /\ LET event == MouseEvent("move", x, y, "", 0, 0)
       IN  snd_send_input_event(event, event)

\* _on_mouse_click(x, y, button, pressed)
snd_on_mouse_click(x, y, button, pressed) ==
    /\ snd_listeners = "started"
    /\ events_in < MaxEvents
    /\ LET event == MouseEvent(IF pressed THEN "press" ELSE "release", x, y,
                               button_name(button), 0, 0)
       IN  snd_send_input_event(event, event)

\* _on_mouse_scroll(x, y, dx, dy)
snd_on_mouse_scroll(x, y, dx, dy) ==
    /\ snd_listeners = "started"
    /\ events_in < MaxEvents
    /\ LET event == MouseEvent("scroll", x, y, "", dx, dy)
       IN  snd_send_input_event(event, event)

\* _on_key_press(key) and _on_key_release(key)
snd_on_key(key, pressed) ==
    /\ snd_listeners = "started"
    /\ events_in < MaxEvents
    /\ LET event == KeyEvent(IF pressed THEN "press" ELSE "release",
                             _key_to_string(key, platform))
       IN  snd_send_input_event(event, event)

\* ----------------------------- CrossPlatformInputForwarder (Host/input.py)
\* set_scaling(host_width, host_height, client_width, client_height)
_fwd_scale(hw, hh, cw, ch) ==
    /\ fwd_args' = <<hw, hh, cw, ch>>
    /\ fwd_repeat' = (fwd_args = <<hw, hh, cw, ch>>)
    /\ IF cw = 0
       THEN UNCHANGED <<fwd_scale_x, fwd_scale_y>>
       ELSE /\ fwd_scale_x' = scale_factor(hw, cw)
            /\ IF ch = 0
               THEN UNCHANGED fwd_scale_y
               ELSE fwd_scale_y' = scale_factor(hh, ch)

fwd_set_scaling(hw, hh, cw, ch) ==
    /\ _fwd_scale(hw, hh, cw, ch)
    /\ UNCHANGED <<ext_vars, pipe_vars, ctl_vars, pynput_available, pyautogui_available,
                   snd_vars, fwd_socket, fwd_client_address, fwd_listeners,
                   cp_vars, ev_vars>>

\* connect(client_ip): a UDP socket for sending is opened (it is never bound
\* and nothing reads from it) and the host's own listeners are started.
_fwd_open_and_listen ==
    /\ fwd_client_address' = TRUE
    /\ fwd_socket' = "open"
    /\ fwd_listeners' = IF pynput_available THEN "started" ELSE fwd_listeners

fwd_connect ==
    /\ fwd_socket = "none"
    /\ _fwd_open_and_listen
    /\ UNCHANGED <<ext_vars, pipe_vars, ctl_vars, pynput_available, pyautogui_available,
                   snd_vars, fwd_scale_x, fwd_scale_y, fwd_args, fwd_repeat,
                   cp_vars, ev_vars>>

\* The end of a forwarder handler called with `raw`: the event goes to the
\* client's control port, where no socket of the client is bound, and the
\* host's own event is given to pyautogui.
fwd_forward(raw, call) ==
    /\ events_in' = events_in + 1
    /\ last_handler' = "fwd"
    /\ raw_event' = raw
    /\ sent_event' = IF fwd_socket = "open" /\ fwd_client_address
                     THEN raw ELSE NoEvent
    /\ injected' = IF pyautogui_available THEN Append(injected, call)
                   ELSE injected
    /\ UNCHANGED <<ext_vars, pipe_vars, str_start, control_socket, ctrl_thread, ctrl_net,
                   ctrl_replies, ctrl_arrived, pynput_available,
                   pyautogui_available, snd_vars, fwd_vars, cp_vars>>

\* _on_mouse_click(x, y, button, pressed)
fwd_on_mouse_click(x, y, button, pressed) ==
    /\ fwd_listeners = "started"
    /\ events_in < MaxEvents
    /\ fwd_forward(MouseEvent(IF pressed THEN "press" ELSE "release", x, y,
                              button_name(button), 0, 0),
                   PyCall(IF pressed THEN "mouseDown" ELSE "mouseUp", x, y,
                          button_name(button), 0, ""))

\* _on_key_press(key) and _on_key_release(key)
fwd_on_key(key, pressed) ==
    /\ fwd_listeners = "started"
    /\ events_in < MaxEvents
    /\ fwd_forward(KeyEvent(IF pressed THEN "press" ELSE "release",
                            _key_to_string(key, platform)),
                   PyCall(IF pressed THEN "keyDown" ELSE "keyUp", 0, 0, "", 0,
                          _key_to_string(key, platform)))

\* ----------------------------------- CrossPlatformInputSender (client.py)
\* set_scaling(display_width, display_height, stream_width, stream_height)
_cp_store(dw, dh, sw, sh) ==
    /\ cp_display_width' = dw
    /\ cp_display_height' = dh
    /\ cp_stream_width' = sw
    /\ cp_stream_height' = sh

cp_set_scaling(dw, dh, sw, sh) ==
    /\ _cp_store(dw, dh, sw, sh)
    /\ UNCHANGED <<ext_vars, pipe_vars, ctl_vars, pynput_available, pyautogui_available,
                   snd_vars, fwd_vars, cp_running, cp_socket, cp_host_ip,
                   ev_vars>>

\* connect(host_ip): _start_input_listeners sets running when pynput is there.
_cp_open_and_listen ==
    /\ cp_host_ip' = TRUE
    /\ cp_socket' = "open"
    /\ cp_running' = IF pynput_available THEN TRUE ELSE cp_running

cp_connect ==
    /\ cp_socket = "none"
    /\ _cp_open_and_listen
    /\ UNCHANGED <<ext_vars, pipe_vars, ctl_vars, pynput_available, pyautogui_available,
                   snd_vars, fwd_vars, cp_display_width, cp_display_height,
                   cp_stream_width, cp_stream_height, ev_vars>>

\* _send_input_event(event) at the end of a handler called with `raw`.
cp_send_input_event(raw, event) ==
    /\ events_in' = events_in + 1
    /\ last_handler' = "cp"
    /\ raw_event' = raw
    /\ IF cp_socket = "open" /\ cp_host_ip /\ cp_running
       THEN /\ sent_event' = event
            /\ ctrl_net' = Append(ctrl_net, InputDatagram(event))
       ELSE /\ sent_event' = NoEvent
            /\ UNCHANGED ctrl_net
    /\ UNCHANGED <<ext_vars, pipe_vars, str_start, control_socket, ctrl_thread,
                   ctrl_replies, ctrl_arrived, injected, pynput_available,
                   pyautogui_available, snd_vars, fwd_vars, cp_vars>>

\* The coordinates a handler of this sender puts in its event.
cp_scaled(x, y) ==
    cp_scale_coordinates(x, y, cp_display_width, cp_display_height,
                         cp_stream_width, cp_stream_height)

\* _on_mouse_move(x, y)
cp_on_mouse_move(x, y) ==
    /\ cp_running
    /\ events_in < MaxEvents
    /\ cp_send_input_event(MouseEvent("move", x, y, "", 0, 0),
                           MouseEvent("move", cp_scaled(x, y)[1],
                                      cp_scaled(x, y)[2], "", 0, 0))

\* _on_mouse_click(x, y, button, pressed)
cp_on_mouse_click(x, y, button, pressed) ==
    /\ cp_running
    /\ events_in < MaxEvents
    /\ LET action == IF pressed THEN "press" ELSE "release"
       IN  cp_send_input_event(
               MouseEvent(action, x, y, button_name(button), 0, 0),
               MouseEvent(action, cp_scaled(x, y)[1], cp_scaled(x, y)[2],
                          button_name(button), 0, 0))

\* _on_mouse_scroll(x, y, dx, dy)
cp_on_mouse_scroll(x, y, dx, dy) ==
    /\ cp_running
    /\ events_in < MaxEvents
    /\ cp_send_input_event(MouseEvent("scroll", x, y, "", dx, dy),
                           MouseEvent("scroll", cp_scaled(x, y)[1],
                                      cp_scaled(x, y)[2], "", dx, dy))

\* ------------------- the connect handlers of the client applications
\* A handler that starts the listeners first.
connect_first == <<"connect", "set_scaling">>

\* What connect_to_host (Client/gui.py) and _connection_result (client.py)
\* do with the input sender once the receiver is connected, in their order.
connect_steps == <<"set_scaling", "connect">>

\* The display size client.py takes when the video label has no size yet.
FallbackDisplayWidth == 1280
FallbackDisplayHeight == 720

\* CrossPlatformClientGUI.connect_to_host (Client/gui.py) up to the result
\* of receiver.connect: the display is the screen, the stream size comes
\* from the configuration.
connect_to_host ==
    /\ ses_app = "none"
    /\ ses_app' = "gui"
    /\ ses_step' = 1
    /\ \E ok \in BOOLEAN, dw \in PosDims, dh \in PosDims, sw \in Dims,
          sh \in Dims :
         /\ ses_call' = IF ok THEN "running" ELSE "refused"
         /\ ses_dims' = IF ok THEN <<dw, dh, sw, sh>> ELSE NoArgs
    /\ UNCHANGED <<but_ses, pipe_vars, ctl_vars, inp_vars>>

\* EdgeLiteClient._connection_result(success, host_ip) (client.py) up to
\* its reading of the sizes: the display is the video label, or 1280x720
\* while the label has no size.
_connection_result ==
    /\ ses_app = "none"
    /\ ses_app' = "client_py"
    /\ ses_step' = 1
    /\ \E success \in BOOLEAN, lw \in Dims, lh \in Dims, st \in PosDims :
         LET display == IF lw <= 1 \/ lh <= 1
                        THEN <<FallbackDisplayWidth, FallbackDisplayHeight>>
                        ELSE <<lw, lh>>
         IN  /\ ses_call' = IF success THEN "running" ELSE "refused"
             /\ ses_dims' = IF success THEN display \o <<st, st>> ELSE NoArgs
    /\ UNCHANGED <<but_ses, pipe_vars, ctl_vars, inp_vars>>

\* The next call the handler makes on its input sender. set_scaling of
\* Client/input.py raises on a stream size of 0 and the handler ends there.
connect_step ==
    /\ ses_call = "running"
    /\ LET what == connect_steps[ses_step]
           done == ses_step = Len(connect_steps)
           d == ses_dims
           go_on == /\ ses_call' = IF done THEN "returned" ELSE "running"
                    /\ ses_step' = IF done THEN ses_step ELSE ses_step + 1
       IN  CASE ses_app = "gui" /\ what = "set_scaling" ->
                  /\ _snd_scale(d[1], d[2], d[3], d[4])
                  /\ IF d[3] = 0 \/ d[4] = 0
                     THEN ses_call' = "raised" /\ UNCHANGED ses_step
                     ELSE go_on
                  /\ UNCHANGED <<pynput_available, pyautogui_available,
                                 snd_socket, snd_host_ip, snd_listeners,
                                 fwd_vars, cp_vars, ev_vars>>
             [] ses_app = "gui" /\ what = "connect" ->
                  /\ _snd_open_and_listen
                  /\ go_on
                  /\ UNCHANGED <<pynput_available, pyautogui_available,
                                 snd_scale_x, snd_scale_y, snd_args,
                                 snd_repeat, fwd_vars, cp_vars, ev_vars>>
             [] ses_app = "client_py" /\ what = "set_scaling" ->
                  /\ _cp_store(d[1], d[2], d[3], d[4])
                  /\ go_on
                  /\ UNCHANGED <<pynput_available, pyautogui_available,
                                 snd_vars, fwd_vars, cp_running, cp_socket,
                                 cp_host_ip, ev_vars>>
             [] ses_app = "client_py" /\ what = "connect" ->
                  /\ _cp_open_and_listen
                  /\ go_on
                  /\ UNCHANGED <<pynput_available, pyautogui_available,
                                 snd_vars, fwd_vars, cp_display_width,
                                 cp_display_height, cp_stream_width,
                                 cp_stream_height, ev_vars>>
    /\ UNCHANGED <<but_ses, ses_app, ses_dims, pipe_vars, ctl_vars>>

\* ------------------------------------------- disconnect of the input classes
\* CrossPlatformInputSender.disconnect() (Client/input.py): the listeners,
\* None until started, are stopped and the socket, None until connect, closed.
snd_disconnect ==
    /\ snd_disconnected = "none"
    /\ snd_listeners' = IF snd_listeners = "started" THEN "stopped"
                        ELSE snd_listeners
    /\ snd_socket' = IF snd_socket = "open" THEN "closed" ELSE snd_socket
    /\ snd_disconnected' = "ok"
    /\ UNCHANGED <<pipe_vars, ctl_vars, pynput_available, pyautogui_available,
                   snd_scale_x, snd_scale_y, snd_host_ip, snd_args, snd_repeat,
                   fwd_vars, cp_vars, ev_vars, but_life, fwd_disconnected,
                   cp_disconnected>>

\* CrossPlatformInputForwarder.disconnect(): mouse_listener and
\* keyboard_listener are attributes only _start_input_listeners creates, so
\* `if self.mouse_listener:` raises AttributeError on an instance whose
\* listeners were never started, before the socket is closed.
_fwd_stop_and_close ==
    IF fwd_listeners = "none"
    THEN /\ fwd_disconnected' = "raised"
         /\ UNCHANGED <<fwd_listeners, fwd_socket>>
    ELSE /\ fwd_disconnected' = "ok"
         /\ fwd_listeners' = "stopped"
         /\ fwd_socket' = IF fwd_socket = "open" THEN "closed"
                          ELSE fwd_socket

fwd_disconnect ==
    /\ fwd_disconnected = "none"
    /\ _fwd_stop_and_close
    /\ UNCHANGED <<pipe_vars, ctl_vars, pynput_available, pyautogui_available,
                   snd_vars, fwd_scale_x, fwd_scale_y, fwd_client_address,
                   fwd_args, fwd_repeat, cp_vars, ev_vars, but_life,
                   snd_disconnected, cp_disconnected>>

\* CrossPlatformInputSender.disconnect() (client.py)
cp_disconnect ==
    /\ cp_disconnected = "none"
    /\ cp_running' = FALSE
    /\ cp_socket' = IF cp_socket = "open" THEN "closed" ELSE cp_socket
    /\ cp_disconnected' = "ok"
    /\ UNCHANGED <<pipe_vars, ctl_vars, pynput_available, pyautogui_available,
                   snd_vars, fwd_vars, cp_display_width, cp_display_height,
                   cp_stream_width, cp_stream_height, cp_host_ip, ev_vars,
                   but_life, snd_disconnected, fwd_disconnected>>

\* ------------------------------------------ the session of EdgeLiteClient
\* connect_to_host's thread and _connection_result(success, host_ip):
\* receiver.connect sets receiver.connected; on success the application
\* sets connected, hands the sizes to input_sender.set_scaling and calls
\* input_sender.connect. On failure it shows the error and changes nothing.
connect_succeeds ==
    /\ ~app_connected
    /\ \E lw \in Dims, lh \in Dims, st \in PosDims :
         LET display == IF lw <= 1 \/ lh <= 1
                        THEN <<FallbackDisplayWidth, FallbackDisplayHeight>>
                        ELSE <<lw, lh>>
         IN  _cp_store(display[1], display[2], st, st)
    /\ rcv_connected' = TRUE
    /\ app_connected' = TRUE
    /\ _cp_open_and_listen
    /\ UNCHANGED <<but_app, pipe_vars, ctl_vars, pynput_available,
                   pyautogui_available, snd_vars, fwd_vars, ev_vars>>

\* The receiver's thread ends on an error and sets receiver.connected to
\* False.
receiver_loses ==
    /\ rcv_connected
    /\ rcv_connected' = FALSE
    /\ UNCHANGED <<but_app, app_connected, pipe_vars, ctl_vars, inp_vars>>

\* update_stats, once a second: while connected it reads
\* receiver.get_stats() and, through update_display and its own test, marks
\* the connection lost when stats['connected'] is false: connected is
\* cleared and the window updated. The input sender is not touched.
update_stats ==
    /\ app_connected
    /\ app_connected' = rcv_connected
    /\ UNCHANGED <<but_app, rcv_connected, pipe_vars, ctl_vars, inp_vars>>

\* disconnect_from_host: receiver.disconnect(), input_sender.disconnect(),
\* then connected is cleared.
disconnect_from_host ==
    /\ app_connected
    /\ rcv_connected' = FALSE
    /\ cp_running' = FALSE
    /\ cp_socket' = IF cp_socket = "open" THEN "closed" ELSE cp_socket
    /\ cp_disconnected' = "ok"
    /\ app_connected' = FALSE
    /\ UNCHANGED <<but_life_app, snd_disconnected, fwd_disconnected,
                   pipe_vars, ctl_vars, pynput_available, pyautogui_available,
                   snd_vars, fwd_vars, cp_display_width, cp_display_height,
                   cp_stream_width, cp_stream_height, cp_host_ip, ev_vars>>

\* ------------------------------------ the control port of EnhancedStreamer
\* Some peer sends the text STATS to the control port.
send_stats ==
    /\ events_in < MaxEvents
    /\ events_in' = events_in + 1
    /\ last_handler' = "peer"
    /\ raw_event' = NoEvent
    /\ sent_event' = NoEvent
    /\ ctrl_net' = Append(ctrl_net, StatsDatagram)
    /\ UNCHANGED <<ext_vars, pipe_vars, str_start, control_socket, ctrl_thread,
                   ctrl_replies, ctrl_arrived, injected, pynput_available,
                   pyautogui_available, snd_vars, fwd_vars, cp_vars>>

\* A datagram to the control port is lost (or finds the port unbound).
ctrl_lose ==
    /\ ctrl_net # <<>>
    /\ \E i \in DOMAIN ctrl_net : ctrl_net' = RemoveAt(ctrl_net, i)
    /\ UNCHANGED <<ext_vars, pipe_vars, str_start, control_socket, ctrl_thread,
                   ctrl_replies, ctrl_arrived, injected, inp_vars>>

\* Some peer sends the text QUALITY:<level> to the control port.
send_quality ==
    /\ events_in < MaxEvents
    /\ events_in' = events_in + 1
    /\ last_handler' = "peer"
    /\ raw_event' = NoEvent
    /\ sent_event' = NoEvent
    /\ \E level \in Levels, a \in PeerAddrs :
         ctrl_net' = Append(ctrl_net, TextDatagram(QualityPrefix \o level, a))
    /\ UNCHANGED <<ext_vars, pipe_vars, str_start, control_socket, ctrl_thread,
                   ctrl_replies, ctrl_arrived, injected, pynput_available,
                   pyautogui_available, snd_vars, fwd_vars, cp_vars>>

\* EnhancedStreamer.get_stats(), the counters of it.
get_stats ==
    [sent_packets |-> sent_packets, sent_bytes |-> sent_bytes,
     queue_size |-> Len(str_packet_queue)]

\* _handle_control_command(data, addr): the replies it sends.
_handle_control_command(d) ==
    LET command == strip(d.text) IN
    IF command = StatsText
    THEN << [to |-> d.addr, stats |-> get_stats, text |-> <<>>] >>
    ELSE IF startswith(command, QualityPrefix)
    THEN << [to |-> d.addr, stats |-> <<>>,
             text |-> AckPrefix \o split_1(command)] >>
    ELSE << >>

\* One pass of _control_loop: recvfrom returns a datagram and
\* _handle_control_command answers STATS, acknowledges QUALITY:, and does
\* nothing for any other text, the JSON of an input event included.
control_loop ==
    /\ ctrl_thread = "running"
    /\ str_running
    /\ control_socket = "bound"
    /\ ctrl_net # <<>>
    /\ \E i \in DOMAIN ctrl_net :
         LET d == ctrl_net[i]
             replies == _handle_control_command(d)
         IN  /\ ctrl_net' = RemoveAt(ctrl_net, i)
             /\ ctrl_replies' = ctrl_replies + Len(replies)
             /\ ctrl_arrived' = IF d.kind = "json"
                                THEN Append(ctrl_arrived, d.event)
                                ELSE ctrl_arrived
             /\ ctrl_log' = IF d.kind = "text"
                            THEN Append(ctrl_log, [request |-> d,
                                                   replies |-> replies])
                            ELSE ctrl_log
    /\ UNCHANGED <<but_cmd, pipe_vars, str_start, control_socket, ctrl_thread,
                   injected, inp_vars>>

\* --------------------------------------- EdgeLiteHost (Host/main host.py)
\* The order in which start_streaming starts the components it has built,
\* and the order in which cleanup_components stops them.
capture_first == <<"capture", "encoder", "streamer", "input_forwarder">>
start_steps == <<"encoder", "streamer", "input_forwarder", "capture">>
input_forwarder_first == <<"input_forwarder", "streamer", "encoder", "capture">>
cleanup_steps == <<"capture", "encoder", "streamer", "input_forwarder">>

Started(what) == [op |-> "start", what |-> what]
Stopped(what) == [op |-> "stop", what |-> what]

\* CrossPlatformCapture.start_capture(callback): running is set; the
\* monitor is looked up through mss, which may raise; the thread is started.
_set_and_start(mss_ok) ==
    /\ cap_running' = TRUE
    /\ cap_thread' = IF mss_ok THEN "running" ELSE cap_thread

start_capture ==
    /\ cap_thread = "none"
    /\ ~cap_running
    /\ \E mss_ok \in BOOLEAN : _set_and_start(mss_ok)
    /\ UNCHANGED <<but_host, host_streaming, host_refs, host_call, host_step,
                   host_log, pump_thread, pipe_vars, ctl_vars, inp_vars>>

\* CrossPlatformCapture.stop_capture(): running is cleared and the thread,
\* if there is one, joined.
_clear_and_join ==
    /\ cap_running' = FALSE
    /\ cap_thread' = IF cap_thread = "running" THEN "joined" ELSE cap_thread

stop_capture ==
    /\ cap_running
    /\ _clear_and_join
    /\ UNCHANGED <<but_host, host_streaming, host_refs, host_call, host_step,
                   host_log, pump_thread, pipe_vars, ctl_vars, inp_vars>>

\* start_streaming, up to the four constructors.
host_start_streaming ==
    /\ host_call = "none"
    /\ ~host_streaming
    /\ host_capture' = TRUE
    /\ host_encoder' = TRUE
    /\ host_streamer' = TRUE
    /\ host_input_forwarder' = TRUE
    /\ encoder_name' = _select_platform_encoder(platform, enc_creatable)
    /\ host_call' = "starting"
    /\ host_step' = 1
    /\ last_op' = NoOp
    /\ UNCHANGED <<but_host, host_streaming, host_log, pump_thread,
                   cap_running, cap_thread, env_vars, codec_context,
                   enc_start, enc_running, enc_frame_queue, enc_packet_queue,
                   enc_frame_count, frames_in, str_vars, net, rx_vars,
                   ctl_vars, inp_vars>>

\* How a step of start_streaming goes on: to the next step, or, the step
\* having raised, to cleanup_components in the except clause.
host_after(ok) ==
    IF ok
    THEN /\ host_call' = "starting"
         /\ host_step' = host_step + 1
    ELSE /\ host_call' = "start_cleanup"
         /\ host_step' = 1

\* The next step of start_streaming: encoder.start_encoding(), or
\* streamer.start_streaming(client_ip) (False is turned into an exception),
\* or input_forwarder.set_scaling and connect, or capture.start_capture,
\* which sets capture.running and may raise in mss before its thread starts.
host_start_step ==
    /\ host_call = "starting"
    /\ host_step \in DOMAIN start_steps
    /\ LET what == start_steps[host_step] IN
       /\ host_log' = Append(host_log, Started(what))
       /\ CASE what = "encoder" ->
                 /\ _setup_codec_and_run(encoder_name)
                 /\ host_after(enc_start' = "ok")
                 /\ UNCHANGED <<but_host, cap_running, cap_thread, env_vars,
                                encoder_name, enc_frame_queue,
                                enc_packet_queue, enc_frame_count, frames_in,
                                str_vars, net, rx_vars, last_op, ctl_vars,
                                inp_vars>>
            [] what = "streamer" ->
                 /\ _start_sockets_and_threads
                 /\ host_after(str_start' = "ok")
                 /\ UNCHANGED <<but_host_thr,
                                str_stop, cap_running, cap_thread, env_vars,
                                enc_vars, mtu_size, str_packet_queue,
                                sent_packets, sent_bytes, packets_in,
                                frag_seqs, sendto_log, last_packet, net,
                                rx_vars, last_op, ctrl_net, ctrl_replies,
                                ctrl_arrived, injected, inp_vars>>
            [] what = "input_forwarder" ->
                 /\ \E cw \in PosDims : _fwd_scale(MaxDim, MaxDim, cw, cw)
                 /\ _fwd_open_and_listen
                 /\ host_after(TRUE)
                 /\ UNCHANGED <<but_host, cap_running, cap_thread, pipe_vars,
                                ctl_vars, pynput_available,
                                pyautogui_available, snd_vars, cp_vars,
                                ev_vars>>
            [] what = "capture" ->
                 /\ \E mss_ok \in BOOLEAN :
                      /\ _set_and_start(mss_ok)
                      /\ host_after(mss_ok)
                 /\ UNCHANGED <<but_host, pipe_vars, ctl_vars, inp_vars>>
    /\ UNCHANGED <<host_streaming, host_refs, pump_thread>>

\* The rest of start_streaming: streaming is set and the thread of
\* _stream_packets started.
host_started ==
    /\ host_call = "starting"
    /\ host_step = Len(start_steps) + 1
    /\ host_streaming' = TRUE
    /\ pump_thread' = "running"
    /\ host_call' = "started"
    /\ UNCHANGED <<but_host, host_refs, host_step, host_log, cap_running,
                   cap_thread, pipe_vars, ctl_vars, inp_vars>>

\* stop_streaming, up to its call of cleanup_components.
host_stop_streaming ==
    /\ host_call = "started"
    /\ host_streaming
    /\ host_streaming' = FALSE
    /\ host_call' = "stop_cleanup"
    /\ host_step' = 1
    /\ UNCHANGED <<but_host, host_refs, host_log, pump_thread, cap_running,
                   cap_thread, pipe_vars, ctl_vars, inp_vars>>

\* host.<component> of a step of cleanup_components.
host_ref(what) ==
    CASE what = "capture" -> host_capture
      [] what = "encoder" -> host_encoder
      [] what = "streamer" -> host_streamer
      [] what = "input_forwarder" -> host_input_forwarder

\* host.<component> = None
host_clear(what) ==
    /\ host_capture' = (host_capture /\ what # "capture")
    /\ host_encoder' = (host_encoder /\ what # "encoder")
    /\ host_streamer' = (host_streamer /\ what # "streamer")
    /\ host_input_forwarder' =
           (host_input_forwarder /\ what # "input_forwarder")

\* The next step of cleanup_components: a component that is set is stopped
\* and its reference cleared. stop_capture waits for the capture thread;
\* stop_encoding flushes an open codec into packet_queue with a blocking put
\* and closes the codec; stop_streaming closes the sockets; disconnect may
\* raise, and the exception leaves cleanup_components and its caller.
host_cleanup_step ==
    /\ host_call \in {"start_cleanup", "stop_cleanup"}
    /\ host_step \in DOMAIN cleanup_steps
    /\ LET what == cleanup_steps[host_step]
           go_on == /\ host_call' = host_call
                    /\ host_step' = host_step + 1
                    /\ host_clear(what)
                    /\ host_log' = Append(host_log, Stopped(what))
       IN
       IF ~host_ref(what)
       THEN /\ host_step' = host_step + 1
            /\ UNCHANGED <<but_host, host_refs, host_call, host_log,
                           cap_running, cap_thread, pipe_vars, ctl_vars,
                           inp_vars>>
       ELSE
         CASE what = "capture" ->
                /\ _clear_and_join
                /\ go_on
                /\ UNCHANGED <<but_host, pipe_vars, ctl_vars, inp_vars>>
           [] what = "encoder" ->
                /\ _flush_and_close
                /\ IF enc_stop' = "blocked"
                   THEN /\ host_call' = "blocked"
                        /\ UNCHANGED <<host_step, host_refs, host_log>>
                   ELSE go_on
                /\ UNCHANGED <<but_host_est, cap_running, cap_thread, env_vars,
                               encoder_name, enc_start, enc_frame_queue,
                               enc_frame_count, frames_in, str_vars, net,
                               rx_vars, last_op, ctl_vars, inp_vars>>
           [] what = "streamer" ->
                /\ _clear_and_close
                /\ go_on
                /\ UNCHANGED <<but_host_thr,
                               stream_thread, cap_running, cap_thread,
                               env_vars, enc_vars, mtu_size, str_packet_queue,
                               client_address, sent_packets, sent_bytes,
                               packets_in, frag_seqs, sendto_log,
                               last_packet, net, rx_vars, last_op, str_start,
                               ctrl_thread, ctrl_net, ctrl_replies,
                               ctrl_arrived, injected, inp_vars>>
           [] what = "input_forwarder" ->
                /\ _fwd_stop_and_close
                /\ IF fwd_disconnected' = "raised"
                   THEN /\ host_call' = IF host_call = "start_cleanup"
                                        THEN "start_escaped"
                                        ELSE "stop_escaped"
                        /\ UNCHANGED <<host_step, host_refs, host_log>>
                   ELSE go_on
                /\ UNCHANGED <<but_host_life,
                               snd_disconnected, cp_disconnected, cap_running,
                               cap_thread, pipe_vars, ctl_vars,
                               pynput_available, pyautogui_available,
                               snd_vars, fwd_scale_x, fwd_scale_y,
                               fwd_client_address, fwd_args, fwd_repeat,
                               cp_vars, ev_vars>>
    /\ UNCHANGED <<host_streaming, pump_thread>>

\* cleanup_components has returned: start_streaming ends after its error
\* dialog, stop_streaming after updating the window.
host_returned ==
    /\ host_call \in {"start_cleanup", "stop_cleanup"}
    /\ host_step = Len(cleanup_steps) + 1
    /\ host_call' = IF host_call = "start_cleanup" THEN "start_failed"
                    ELSE "stopped"
    /\ UNCHANGED <<but_host, host_streaming, host_refs, host_step, host_log,
                   pump_thread, cap_running, cap_thread, pipe_vars, ctl_vars,
                   inp_vars>>

\* One pass of _capture_loop: the frame grabbed goes to the callback,
\* encoder.add_frame.
push_before_callback == <<"push", "callback">>
pass_steps == <<"callback", "push">>

\* What a pass leaves: the calls of the callback, each with the queue as it
\* was at the call, and the queue after the pass.
PassResult(frame, q) ==
    LET step(st, name) ==
            IF name = "callback"
            THEN [q |-> st.q,
                  calls |-> Append(st.calls, [frame |-> frame, queue |-> st.q])]
            ELSE [q |-> put_if_not_full(st.q, CapFrameQueueSize, frame),
                  calls |-> st.calls]
    IN  step(step([q |-> q, calls |-> <<>>], pass_steps[1]), pass_steps[2])

_capture_pass ==
    /\ cap_thread = "running"
    /\ cap_running
    /\ encoder_name # NoCodec
    /\ LET r == PassResult(frames_in + 1, cap_frame_queue) IN
       /\ cap_frame_queue' = r.q
       /\ cap_last' = [frame |-> frames_in + 1, calls |-> r.calls,
                       before |-> cap_frame_queue]
    /\ _add_next_frame
    /\ UNCHANGED <<but_cap, env_vars, ctl_vars, inp_vars, encoder_name,
                   codec_context, enc_start, enc_running, enc_packet_queue,
                   enc_frame_count, str_vars, net, rx_vars>>

\* One pass of _capture_loop in which sct.grab or the on_frame callback
\* raises: nothing is pushed.
_capture_loop_raises ==
    /\ cap_thread = "running"
    /\ cap_running
    /\ cap_thread' = except_Exception(cap_thread)
    /\ error_at' = [error_at EXCEPT !.capture = frames_in + 1]
    /\ UNCHANGED <<but_host_fail, host_streaming, host_refs, host_call,
                   host_step, host_log, pump_thread, cap_running, pipe_vars,
                   ctl_vars, inp_vars>>

\* stop_capture up to its join: running is cleared.
stop_capture_clear ==
    /\ cap_running
    /\ cap_running' = FALSE
    /\ UNCHANGED <<but_host, host_streaming, host_refs, host_call, host_step,
                   host_log, pump_thread, cap_thread, pipe_vars, ctl_vars,
                   inp_vars>>

\* _capture_loop tests `while self.running` and finds it false; the join in
\* stop_capture returns.
_capture_loop_exit ==
    /\ cap_thread = "running"
    /\ ~while_running(cap_running)
    /\ cap_thread' = "exited"
    /\ UNCHANGED <<but_host, host_streaming, host_refs, host_call, host_step,
                   host_log, pump_thread, cap_running, pipe_vars, ctl_vars,
                   inp_vars>>

\* CrossPlatformCapture.get_frame(): the loop `while not
\* frame_queue.empty(): frame = frame_queue.get_nowait()` binds the local
\* `frame` only when it runs at least once; `return frame` with the local
\* unbound raises UnboundLocalError, which `except queue.Empty` does not
\* catch.
get_frame_outcome(q) ==
    LET bound == q # <<>>
        exc == IF bound THEN "none" ELSE "UnboundLocalError"
        caught == exc = "Empty"
    IN [called |-> TRUE, before |-> q,
        raised |-> IF caught THEN "none" ELSE exc,
        none |-> caught,
        frame |-> IF bound THEN q[Len(q)] ELSE 0]

capture_get_frame ==
    /\ cap_got' = get_frame_outcome(cap_frame_queue)
    /\ cap_frame_queue' = <<>>
    /\ UNCHANGED <<but_cap_cg, cap_last, pipe_vars, ctl_vars, inp_vars>>

capture_loop ==
    /\ frames_in < MaxSessionFrames
    /\ _capture_pass

\* One pass of _stream_packets that gets a packet from the encoder and hands
\* it to streamer.send_packet.
_get_and_send ==
    /\ enc_packet_queue # <<>>
    /\ LET packet == Head(enc_packet_queue) IN
       /\ enc_packet_queue' = Tail(enc_packet_queue)
       /\ packets_in' = packets_in + 1
       /\ IF str_running
          THEN /\ str_packet_queue' =
                      put_if_not_full(str_packet_queue, StrPacketQueueSize,
                                      packet)
               /\ last_op' = [op |-> "put", queue |-> "send_queue",
                              item |-> packet,
                              full |-> full(str_packet_queue,
                                            StrPacketQueueSize)]
          ELSE /\ str_packet_queue' = str_packet_queue
               /\ last_op' = NoOp
    /\ UNCHANGED <<ext_vars, env_vars, ctl_vars, inp_vars, encoder_name,
                   codec_context, enc_start, enc_running, enc_frame_queue,
                   enc_frame_count, frames_in, mtu_size, str_running,
                   video_socket, client_address, sent_packets, sent_bytes,
                   frag_seqs, sendto_log, last_packet, net, rx_vars>>

_stream_packets ==
    /\ pump_thread = "running"
    /\ host_streaming
    /\ _get_and_send

\* The number of start_streaming calls after the first that are followed.
MaxRestarts == 1

\* start_streaming called again after a session has ended, up to the four
\* constructors: self.capture, self.encoder, self.streamer and
\* self.input_forwarder are new objects, each in the state its __init__
\* leaves. Nothing is done about self.stream_thread: a _stream_packets
\* thread of the session before that has not yet found self.streaming false
\* stays as it is. The loops of the replaced objects test flags of those
\* objects, which their stop methods have cleared, and are not followed.
host_start_streaming_again ==
    /\ host_call \in {"stopped", "start_failed"}
    /\ ~host_streaming
    /\ host_restarts < MaxRestarts
    /\ host_restarts' = host_restarts + 1
    /\ old_pumps' = old_pumps + (IF pump_thread = "running" THEN 1 ELSE 0)
    /\ pump_thread' = "none"
    /\ host_capture' = TRUE
    /\ host_encoder' = TRUE
    /\ host_streamer' = TRUE
    /\ host_input_forwarder' = TRUE
    /\ host_call' = "starting"
    /\ host_step' = 1
    /\ host_log' = <<>>
    /\ cap_running' = FALSE
    /\ cap_thread' = "none"
    /\ cap_frame_queue' = <<>>
    /\ cap_last' = NoPass
    /\ encoder_name' = _select_platform_encoder(platform, enc_creatable)
    /\ codec_context' = "none"
    /\ enc_start' = "none"
    /\ enc_running' = FALSE
    /\ enc_frame_queue' = <<>>
    /\ enc_packet_queue' = <<>>
    /\ enc_frame_count' = 0
    /\ enc_stop' = "none"
    /\ str_running' = FALSE
    /\ str_packet_queue' = <<>>
    /\ video_socket' = "none"
    /\ client_address' = FALSE
    /\ sent_packets' = 0
    /\ sent_bytes' = 0
    /\ frag_seqs' = <<>>
    /\ sendto_log' = <<>>
    /\ last_packet' = NoPacket
    /\ str_start' = "none"
    /\ str_stop' = "none"
    /\ control_socket' = "none"
    /\ ctrl_thread' = "none"
    /\ stream_thread' = "none"
    /\ fwd_scale_x' = One
    /\ fwd_scale_y' = One
    /\ fwd_socket' = "none"
    /\ fwd_client_address' = FALSE
    /\ fwd_listeners' = "none"
    /\ fwd_args' = NoArgs
    /\ fwd_repeat' = FALSE
    /\ fwd_disconnected' = "none"
    /\ last_op' = NoOp
    /\ UNCHANGED <<but_restart, host_streaming, env_vars, mtu_size, frames_in,
                   packets_in, net, rx_vars, ctrl_net, ctrl_replies,
                   ctrl_arrived, injected, pynput_available,
                   pyautogui_available, snd_vars, cp_vars, ev_vars,
                   snd_disconnected, cp_disconnected>>

\* One pass of a _stream_packets thread of an earlier session: it reads
\* self.streaming, self.encoder and self.streamer as they are now.
_old_stream_packets ==
    /\ old_pumps > 0
    /\ host_streaming
    /\ _get_and_send

\* A _stream_packets thread of an earlier session tests
\* `while self.streaming` and finds it false.
_old_stream_packets_exit ==
    /\ old_pumps > 0
    /\ ~host_streaming
    /\ old_pumps' = old_pumps - 1
    /\ UNCHANGED <<but_old, host_restarts, pipe_vars, ctl_vars, inp_vars>>

\* _stream_packets tests `while self.streaming` and finds it false.
_stream_packets_exit ==
    /\ pump_thread = "running"
    /\ ~host_streaming
    /\ pump_thread' = "exited"
    /\ UNCHANGED <<but_host, host_streaming, host_refs, host_call, host_step,
                   host_log, cap_running, cap_thread, pipe_vars, ctl_vars,
                   inp_vars>>

\* ---------------------------------------------------------- specifications
\* The encoder and its two queues.
NextEncoder ==
    \/ Encoder__init__
    \/ start_encoding
    \/ add_frame
    \/ encode_ok
    \/ encode_error
    \/ get_packet

SpecEncoder == Init /\ [][NextEncoder]_vars

\* The transport's send queue under a burst of small packets.
NextSendQueue ==
    \/ start_streaming
    \/ send_packet_small
    \/ streaming_loop
    \/ net_lose

SpecSendQueue == InitSendQueue /\ [][NextSendQueue]_vars

\* The transport, the network and the receiver, for packets of all sizes.
NextTransport ==
    \/ start_streaming
    \/ send_packet_any
    \/ streaming_loop
    \/ net_lose
    \/ net_deliver
    \/ Receiver__init__
    \/ connect

SpecTransport == InitTransport /\ [][NextTransport]_vars

\* Codec selection and start on any machine.
NextCodec ==
    \/ Encoder__init__
    \/ start_encoding
    \/ add_frame
    \/ encode_error
    \/ Receiver__init__
    \/ connect

SpecCodec == InitCodec /\ [][NextCodec]_vars

\* Both input senders' scaling factors.
InitScaling ==
    /\ platform = "linux"
    /\ AllCodecs
    /\ AllInputLibs
    /\ InitState

NextScaling ==
    \/ \E dw \in Dims, dh \in Dims, sw \in Dims, sh \in Dims :
         snd_set_scaling(dw, dh, sw, sh)
    \/ \E hw \in PosDims, hh \in PosDims, cw \in PosDims, ch \in PosDims :
         fwd_set_scaling(hw, hh, cw, ch)

SpecScaling == InitScaling /\ [][NextScaling]_vars

\* The input channel: the client's sender, the host's control port and the
\* host's forwarder.
InitInput ==
    /\ platform \in {"linux", "darwin"}
    /\ AllCodecs
    /\ pynput_available \in BOOLEAN
    /\ pyautogui_available \in BOOLEAN
    /\ InitState

NextInput ==
    \/ start_streaming
    \/ \E d \in Dims, st \in Dims : snd_set_scaling(d, d, st, st)
    \/ snd_connect
    \/ \E x \in 0..MaxCoord, y \in 0..MaxCoord : snd_on_mouse_move(x, y)
    \/ \E x \in 0..MaxCoord, b \in Buttons, pressed \in BOOLEAN :
         snd_on_mouse_click(x, x, b, pressed)
    \/ \E x \in 0..MaxCoord, dy \in ScrollSteps :
         snd_on_mouse_scroll(x, x, 0, dy)
    \/ \E k \in Keys, pressed \in BOOLEAN : snd_on_key(k, pressed)
    \/ send_stats
    \/ ctrl_lose
    \/ control_loop
    \/ fwd_connect
    \/ \E x \in 0..MaxCoord, b \in Buttons, pressed \in BOOLEAN :
         fwd_on_mouse_click(x, x, b, pressed)
    \/ \E k \in Keys, pressed \in BOOLEAN : fwd_on_key(k, pressed)

SpecInput == InitInput /\ [][NextInput]_vars

\* The control thread, while alive, keeps taking what its socket holds.
SpecInputLive == SpecInput /\ WF_vars(control_loop)

\* The input sender of client.py.
InitClientPy ==
    /\ platform = "linux"
    /\ AllCodecs
    /\ pynput_available \in BOOLEAN
    /\ pyautogui_available = TRUE
    /\ InitState

NextClientPy ==
    \/ \E dw \in Dims, dh \in Dims, st \in Dims :
         cp_set_scaling(dw, dh, st, st)
    \/ cp_connect
    \/ \E x \in Coords, y \in Coords : cp_on_mouse_move(x, y)
    \/ \E x \in Coords, b \in Buttons, pressed \in BOOLEAN :
         cp_on_mouse_click(x, x, b, pressed)
    \/ \E x \in Coords, dy \in ScrollSteps :
         cp_on_mouse_scroll(x, x, 0, dy)
    \/ ctrl_lose

SpecClientPy == InitClientPy /\ [][NextClientPy]_vars

\* A session of client.py: connecting, the receiver losing its stream, the
\* periodic update_stats, disconnecting, and the pointer moving at any time.
NextClientSession ==
    \/ connect_succeeds
    \/ receiver_loses
    \/ update_stats
    \/ disconnect_from_host
    \/ \E x \in Coords, y \in Coords : cp_on_mouse_move(x, y)

SpecClientSession == InitClientPy /\ [][NextClientSession]_vars

\* A session of either client application: its connect handler and the
\* pointer events its listeners deliver from the moment they are started.
NextSession ==
    \/ connect_to_host
    \/ _connection_result
    \/ connect_step
    \/ \E x \in 0..MaxCoord, y \in 0..MaxCoord : snd_on_mouse_move(x, y)
    \/ \E x \in Coords, y \in Coords : cp_on_mouse_move(x, y)

SpecSession == InitInput /\ [][NextSession]_vars

NextReceiver ==
    \/ Receiver__init__
    \/ connect
    \/ decode_frame
    \/ get_frame
    \/ source_ends
    \/ rx_disconnect
    \/ receive_loop_exit

SpecReceiver == Init /\ [][NextReceiver]_vars

\* The receiver with packets that cannot be decoded or shown.
NextReceiverErrors ==
    \/ NextReceiver
    \/ packet_raises

SpecReceiverErrors == Init /\ [][NextReceiverErrors]_vars

\* Host discovery on the client.
NextDiscovery ==
    \/ start_discovery
    \/ broadcast
    \/ disc_lose
    \/ discovery_loop
    \/ stop_discovery
    \/ discovery_loop_exit

SpecDiscovery == Init /\ [][NextDiscovery]_vars

\* Discovery messages from create_broadcast_message to
\* parse_broadcast_message.
NextMessage ==
    \/ make_message
    \/ parse_message

SpecMessage == Init /\ [][NextMessage]_vars

\* The control port: commands and their replies, beside the send queue.
NextControl ==
    \/ start_streaming
    \/ send_packet_small
    \/ streaming_loop
    \/ send_stats
    \/ send_quality
    \/ ctrl_lose
    \/ control_loop

SpecControl == InitSendQueue /\ [][NextControl]_vars

\* Connecting and disconnecting the input classes, with events in between.
NextLifecycle ==
    \/ snd_connect
    \/ snd_disconnect
    \/ \E x \in 0..MaxCoord, y \in 0..MaxCoord : snd_on_mouse_move(x, y)
    \/ fwd_connect
    \/ fwd_disconnect
    \/ \E k \in Keys, pressed \in BOOLEAN : fwd_on_key(k, pressed)
    \/ cp_connect
    \/ cp_disconnect
    \/ \E x \in 0..MaxCoord, y \in 0..MaxCoord : cp_on_mouse_move(x, y)
    \/ ctrl_lose

SpecLifecycle == InitInput /\ [][NextLifecycle]_vars

\* The transport from start_streaming to stop_streaming, with its two threads.
NextStop ==
    \/ start_streaming
    \/ send_packet_small
    \/ streaming_loop
    \/ stop_streaming
    \/ streaming_loop_exit
    \/ control_loop_exit

SpecStop == InitSendQueue /\ [][NextStop]_vars

\* A session of the host, on a machine whose encoders all open or all fail
\* to, with or without pynput.
InitHost ==
    /\ platform = "linux"
    /\ enc_creatable = Range(EncoderCandidates(platform)) \cup {SoftwareEncoder}
    /\ enc_openable \in {enc_creatable, {}}
    /\ dec_creatable = Range(DecoderCandidates(platform)) \cup {SoftwareDecoder}
    /\ pynput_available \in BOOLEAN
    /\ pyautogui_available = TRUE
    /\ InitState

NextHost ==
    \/ host_start_streaming
    \/ host_start_step
    \/ host_started
    \/ host_stop_streaming
    \/ host_cleanup_step
    \/ host_returned
    \/ capture_loop
    \/ encode_ok
    \/ _stream_packets
    \/ _stream_packets_exit
    \/ streaming_loop
    \/ streaming_loop_exit
    \/ control_loop_exit

SpecHost == InitHost /\ [][NextHost]_vars

\* The host application over two sessions: a session, stop_streaming, and
\* start_streaming again, frames being captured in the later session.
NextSessions ==
    \/ host_start_streaming
    \/ host_start_streaming_again
    \/ host_start_step
    \/ host_started
    \/ host_stop_streaming
    \/ host_cleanup_step
    \/ host_returned
    \/ (host_restarts = MaxRestarts /\ capture_loop)
    \/ encode_ok
    \/ _stream_packets
    \/ _stream_packets_exit
    \/ _old_stream_packets
    \/ _old_stream_packets_exit
    \/ streaming_loop
    \/ streaming_loop_exit
    \/ control_loop_exit

SpecSessions == InitHost /\ [][NextSessions]_vars

\* The encoder from construction to stop_encoding, its consumer calling
\* get_packet at any pace.
NextEncoderStop ==
    \/ Encoder__init__
    \/ start_encoding
    \/ add_frame
    \/ encode_ok
    \/ get_packet
    \/ stop_encoding

SpecEncoderStop == InitSendQueue /\ [][NextEncoderStop]_vars

\* The encoder with each pass of its loop and stop_encoding taken in the
\* steps at which the two threads can interleave.
NextPushers ==
    \/ Encoder__init__
    \/ start_encoding
    \/ (frames_in < MaxFrags /\ add_frame)
    \/ _encode_loop_take
    \/ _encode_loop_put
    \/ _encode_loop_next
    \/ get_packet
    \/ stop_encoding_flush
    \/ stop_encoding_put
    \/ stop_encoding_close

SpecPushers == InitSendQueue /\ [][NextPushers]_vars

\* The encoder with the codec calls of the encode thread and of
\* stop_encoding taken apart into entering the call and leaving it.
NextCodecCalls ==
    \/ Encoder__init__
    \/ start_encoding
    \/ (frames_in < MaxFrags /\ add_frame)
    \/ _encode_loop_get
    \/ _encode_loop_encode
    \/ _encode_loop_encoded
    \/ _encode_loop_put
    \/ _encode_loop_next
    \/ _encode_loop_exit
    \/ stop_encoding_enter
    \/ stop_encoding_flushed
    \/ stop_encoding_put
    \/ stop_encoding_close

SpecCodecCalls == InitSendQueue /\ [][NextCodecCalls]_vars

\* The three loops of the host, each started by its component's start
\* operation, with passes that fail among the passes that succeed: first the
\* capture loop works, then the encode loop, then the streaming loop.
NextFailures ==
    \/ Encoder__init__
    \/ start_encoding
    \/ start_capture
    \/ (frames_in < MaxPackets /\ _capture_pass)
    \/ (frames_in < MaxPackets /\ _capture_loop_raises)
    \/ (frames_in = MaxPackets /\ _encode_loop_take)
    \/ _encode_loop_put
    \/ _encode_loop_next
    \/ (frames_in = MaxPackets /\ _encode_loop_raises)
    \/ (frames_in = MaxPackets /\ enc_frame_queue = <<>> /\ start_streaming)
    \/ (packets_in < MaxPackets /\ send_packet_small)
    \/ (stream_thread = "running" /\ streaming_loop)
    \/ _streaming_loop_send_fails

SpecFailures == InitSendQueue /\ [][NextFailures]_vars

\* The transport, the capture and the encoder of a host, each started,
\* worked and stopped, with the end of each of their loops. The transport
\* shares no flag, queue or thread with the other two here, so it is taken
\* through its life first and the capture and the encoder after it.
TransportDone ==
    /\ packets_in = MaxPackets
    /\ str_stop = "returned"
    /\ stream_thread # "running"
    /\ ctrl_thread # "running"

NextTermination ==
    \/ start_streaming
    \/ (packets_in < MaxPackets /\ send_packet_small)
    \/ streaming_loop
    \/ stop_streaming
    \/ streaming_loop_exit
    \/ control_loop_exit
    \/ (TransportDone /\ Encoder__init__)
    \/ start_encoding
    \/ (encoder_name # NoCodec /\ start_capture)
    \/ (frames_in < MaxPackets /\ _capture_pass)
    \/ _encode_loop_take
    \/ _encode_loop_put
    \/ _encode_loop_next
    \/ stop_capture_clear
    \/ _capture_loop_exit
    \/ stop_encoding_flush
    \/ stop_encoding_put
    \/ stop_encoding_close
    \/ _encode_loop_exit

\* Every thread that can take a step takes one in the end.
SpecTermination ==
    /\ InitSendQueue
    /\ [][NextTermination]_vars
    /\ WF_vars(_capture_loop_exit)
    /\ WF_vars(_encode_loop_put)
    /\ WF_vars(_encode_loop_next)
    /\ WF_vars(_encode_loop_exit)
    /\ WF_vars(streaming_loop_exit)
    /\ WF_vars(control_loop_exit)

\* consumer is idle: first the capture's frame queue, then the encoder's,
\* then the transport's send queue, then the receiver's frame queue.
NextQueues ==
    \/ Encoder__init__
    \/ start_encoding
    \/ get_packet_none
    \/ start_capture
    \/ (frames_in <= CapFrameQueueSize /\ _capture_pass)
    \/ (frames_in > CapFrameQueueSize /\ add_frame)
    \/ (frames_in = MaxFrames /\ start_streaming)
    \/ (frames_in = MaxFrames /\ send_packet_small)
    \/ (packets_in = MaxBurst /\ Receiver__init__)
    \/ (packets_in = MaxBurst /\ connect)
    \/ (packets_in = MaxBurst /\ decode_frame)

SpecQueues == InitSendQueue /\ [][NextQueues]_vars

\* The capture engine with a consumer that polls get_frame at any pace.
NextCaptureGet ==
    \/ Encoder__init__
    \/ start_capture
    \/ (frames_in < MaxFrames /\ _capture_pass)
    \/ capture_get_frame
    \/ stop_capture

SpecCaptureGet == InitSendQueue /\ [][NextCaptureGet]_vars

\* A session of the host whose codec returns packets below and above the MTU.
NextOrder ==
    \/ host_start_streaming
    \/ host_start_step
    \/ host_started
    \/ (frames_in < MaxPackets /\ _capture_pass)
    \/ encode_ok
    \/ encode_ok_sized(mtu_size + 1)
    \/ _stream_packets
    \/ streaming_loop

SpecOrder == InitHost /\ [][NextOrder]_vars

Spec == SpecTransport

\* ------------------------------------------------------------------ claims
Last(q) == q[Len(q)]

\* The queue a put was made to, as it is after the put.
QueueOf(name) ==
    CASE name = "frame_queue"  -> enc_frame_queue
      [] name = "packet_queue" -> enc_packet_queue
      [] name = "send_queue"   -> str_packet_queue
      [] OTHER                 -> <<>>

\* C1: a push into a bounded pipeline queue (encoder input, encoder output,
\* transport send queue) always admits the new item, discarding the oldest one
\* when the queue is full: right after a push the queue's newest item is the
\* item pushed.
C1_PushAdmitsNewest ==
    last_op.op = "put" =>
        /\ QueueOf(last_op.queue) # <<>>
        /\ Last(QueueOf(last_op.queue)) = last_op.item

\* C2: whatever the receiver hands to its decoder is the complete payload of a
\* packet, byte for byte; a fragment, or a packet with a fragment missing, is
\* never handed over.
C2_OnlyWholePayloadsDecoded ==
    rx_unit = <<>> \/ rx_unit \in { MakePayload(n) : n \in PayloadLens(mtu_size) }

\* ceil(S / M), written without the code's (S + M - 1) // M.
CeilDiv(S, M) == (S \div M) + (IF S % M = 0 THEN 0 ELSE 1)

\* C3: for a serialized packet of S bytes and MTU M, the sender emits exactly
\* ceil(S/M) datagrams when S > M, the i-th carrying fragment_index i,
\* fragment_count ceil(S/M) and payload bytes [i*M, min((i+1)*M, S)); when
\* S <= M it emits one datagram, the serialized packet itself, with no header.
C3_FragmentsCoverPayload ==
    last_packet # NoPacket =>
        LET data == to_bytes(last_packet)
            S == Len(data)
            M == mtu_size
            n == CeilDiv(S, M)
        IN IF S > M
           THEN /\ Len(sendto_log) = n
                /\ \A i \in 0..(n - 1) :
                     LET d == sendto_log[i + 1] IN
                     /\ unpack_H(d, 3) = i
                     /\ unpack_H(d, 5) = n
                     /\ SubSeq(d, 7, Len(d))
                          = SubSeq(data, i * M + 1, Min((i + 1) * M, S))
           ELSE sendto_log = << data >>

\* C3 witness: the 5000-byte packet of the specification's scenario has gone
\* out as four datagrams.
C3_Witness ==
    /\ Len(to_bytes(last_packet)) = 5000
    /\ Len(sendto_log) = 4

\* C4: the packet_sequence in the fragment headers is the same in all
\* fragments of one packet and grows from one fragmented packet to the next.
C4_SequenceGrows ==
    /\ \A i, j \in DOMAIN sendto_log :
         (Len(to_bytes(last_packet)) > mtu_size)
            => unpack_H(sendto_log[i], 1) = unpack_H(sendto_log[j], 1)
    /\ \A i, j \in DOMAIN frag_seqs : i < j => frag_seqs[i] < frag_seqs[j]

\* The pyautogui call that replays an input event.
ReplayOf(event) ==
    CASE event.type = "mouse" /\ event.action = "move" ->
            PyCall("moveTo", event.x, event.y, "", 0, "")
      [] event.type = "mouse" /\ event.action = "press" ->
            PyCall("mouseDown", event.x, event.y, event.button, 0, "")
      [] event.type = "mouse" /\ event.action = "release" ->
            PyCall("mouseUp", event.x, event.y, event.button, 0, "")
      [] event.type = "mouse" /\ event.action = "scroll" ->
            PyCall("scroll", 0, 0, "", event.dy, "")
      [] event.type = "keyboard" /\ event.action = "press" ->
            PyCall("keyDown", 0, 0, "", 0, event.key)
      [] OTHER ->
            PyCall("keyUp", 0, 0, "", 0, event.key)

\* C5: every input-event datagram of the client that the host's control
\* port receives is in the end replayed through the host's input injection:
\* once input events have arrived, a moment comes when each of them has its
\* injection call among the calls the host has made.
C5_ArrivedInputReplayed ==
    (ctrl_arrived # <<>>) ~>
        (\A i \in DOMAIN ctrl_arrived :
            \E j \in DOMAIN injected : injected[j] = ReplayOf(ctrl_arrived[i]))

\* C6: every mouse event the sender of Client/input.py gives to sendto has
\* for x and y the result of _scale_coordinates on the raw coordinates the
\* listener reported, under the scale factors of that moment.
C6_SentCoordinatesScaled ==
    [][ (events_in' # events_in /\ last_handler' = "snd"
         /\ sent_event'.type = "mouse")
        => <<sent_event'.x, sent_event'.y>> =
              snd_scale_coordinates(raw_event'.x, raw_event'.y,
                                    snd_scale_x, snd_scale_y) ]_vars

Positive(args) == args # NoArgs /\ \A i \in 1..4 : args[i] > 0
IsQuotient(scale, a, b) == scale.den > 0 /\ scale.num * b = a * scale.den

\* C7: after a call set_scaling(display_w, display_h, stream_w, stream_h)
\* with positive dimensions, of the client's sender or of the host's
\* forwarder, scale_x is display_w / stream_w and scale_y is display_h /
\* stream_h; and a call that repeats the arguments of the call before it
\* leaves both factors as they were.
C7_ScalingFactors ==
    /\ [](/\ Positive(snd_args) =>
               /\ IsQuotient(snd_scale_x, snd_args[1], snd_args[3])
               /\ IsQuotient(snd_scale_y, snd_args[2], snd_args[4])
          /\ Positive(fwd_args) =>
               /\ IsQuotient(fwd_scale_x, fwd_args[1], fwd_args[3])
               /\ IsQuotient(fwd_scale_y, fwd_args[2], fwd_args[4]))
    /\ [][ /\ (snd_repeat' /\ Positive(snd_args')) =>
                (snd_scale_x' = snd_scale_x /\ snd_scale_y' = snd_scale_y)
           /\ (fwd_repeat' /\ Positive(fwd_args')) =>
                (fwd_scale_x' = fwd_scale_x /\ fwd_scale_y' = fwd_scale_y) ]_vars

\* Both instances have been given the same positive arguments twice in a
\* row, with factors above and below one.
C7_Witness ==
    /\ snd_repeat /\ snd_args = <<2, 1, 1, 2>>
    /\ snd_scale_x = [num |-> 2, den |-> 1]
    /\ snd_scale_y = [num |-> 1, den |-> 2]
    /\ fwd_repeat /\ fwd_args = <<1, 2, 2, 1>>
    /\ fwd_scale_x = [num |-> 1, den |-> 2]
    /\ fwd_scale_y = [num |-> 2, den |-> 1]

IsFloor(q, a, b) == q * b <= a /\ a < (q + 1) * b

\* C8: the sender of client.py, its display dimensions positive, sends a
\* pointer event reported at non-negative (x, y) with the coordinates
\* floor(x * stream_width / display_width) and
\* floor(y * stream_height / display_height).
C8_ClientPyScalesDown ==
    [][ (events_in' # events_in /\ last_handler' = "cp"
         /\ raw_event'.type = "mouse"
         /\ raw_event'.x >= 0 /\ raw_event'.y >= 0
         /\ cp_display_width > 0 /\ cp_display_height > 0)
        => /\ sent_event'.type = "mouse"
           /\ sent_event'.action = raw_event'.action
           /\ IsFloor(sent_event'.x, raw_event'.x * cp_stream_width,
                      cp_display_width)
           /\ IsFloor(sent_event'.y, raw_event'.y * cp_stream_height,
                      cp_display_height) ]_vars

\* With a factor of one half in both dimensions the move at (100, 200) has
\* been sent as (50, 100).
C8_Witness ==
    /\ last_handler = "cp"
    /\ cp_display_width = 2 /\ cp_display_height = 2
    /\ cp_stream_width = 1 /\ cp_stream_height = 1
    /\ raw_event = MouseEvent("move", 100, 200, "", 0, 0)
    /\ sent_event = MouseEvent("move", 50, 100, "", 0, 0)

\* The candidate a walk of `candidates` selects, given the probes `ok`.
FirstOk(candidates, ok, software, name) ==
    \/ \E i \in DOMAIN candidates :
         /\ name = candidates[i]
         /\ candidates[i] \in ok
         /\ \A j \in 1..(i - 1) : candidates[j] \notin ok
    \/ /\ name = software
       /\ \A i \in DOMAIN candidates : candidates[i] \notin ok

\* C9: the encoder an encoder instance has selected, and the decoder a
\* receiver instance has selected, is the first candidate of the platform's
\* list whose probe succeeds, every candidate before it having failed, and
\* the software codec when all fail. The selection is made once: no later
\* step, no frame, changes the encoder's choice, and the receiver's choice
\* changes only when connect gives a decoder up for the software one.
C9_FirstProbedSelected ==
    /\ [](/\ encoder_name # NoCodec =>
               FirstOk(EncoderCandidates(platform), enc_creatable,
                       SoftwareEncoder, encoder_name)
          /\ rx_state = "init" =>
               FirstOk(DecoderCandidates(platform), dec_creatable,
                       SoftwareDecoder, decoder_name)
          /\ rx_state \in {"connected", "failed"} =>
               \/ decoder_name = SoftwareDecoder
               \/ FirstOk(DecoderCandidates(platform), dec_creatable,
                          SoftwareDecoder, decoder_name))
    /\ [][ /\ encoder_name # NoCodec => encoder_name' = encoder_name
           /\ (rx_state # "none" /\ decoder_name' # decoder_name) =>
                (rx_state = "init" /\ decoder_name' = SoftwareDecoder) ]_vars

\* The second candidate of each list was selected, the first failing its
\* probe and a later one passing it, and a frame has gone through the
\* encoder's loop since.
C9_Witness ==
    /\ platform = "windows"
    /\ "h264_nvenc" \notin enc_creatable /\ "h264_qsv" \in enc_creatable
    /\ encoder_name = "h264_amf"
    /\ enc_running /\ frames_in > 0 /\ enc_frame_queue = <<>>
    /\ "h264_cuvid" \notin dec_creatable /\ "h264_dxva2" \in dec_creatable
    /\ rx_state = "init" /\ decoder_name = "h264_d3d11va"

\* C10: when no hardware candidate of the platform can be opened and the
\* software encoder can, start_encoding succeeds and runs with the software
\* encoder.
C10_SoftwareFallbackStarts ==
    (/\ enc_start # "none"
     /\ SoftwareEncoder \in enc_openable
     /\ \A c \in Range(EncoderCandidates(platform)) : c \notin enc_openable)
    => (enc_start = "ok" /\ encoder_name = SoftwareEncoder)

\* C11: get_frame returns the freshest frame: what a call returns is the
\* frame most recently decoded at the time of the call, never an older one.
C11_GetFrameFreshest ==
    rx_returned # NoReturn => rx_returned.frame = rx_returned.decoded

\* C12: when the receive loop has ended because the network source broke or
\* ended, and not by disconnect, the connected flag that get_stats reports
\* is false.
C12_SourceEndClearsConnected ==
    (rx_loop = "ended" /\ rx_end_cause = "source") => ~get_stats_connected

\* The number of members of the sequence q that are in S.
RECURSIVE CountIn(_, _)
CountIn(q, S) ==
    IF q = <<>> THEN 0
    ELSE (IF Head(q) \in S THEN 1 ELSE 0) + CountIn(Tail(q), S)

\* C13: however often a host is announced, the discovered-host callback has
\* been invoked at most once for each (host_name, ip) pair.
C13_OneCallbackPerHost ==
    \A h \in HostNames, a \in Addrs : CountIn(disc_calls, {<<h, a>>}) <= 1

\* The datagrams that are JSON objects of type "discovery".
WellFormed == { d \in DiscoveryDatagrams :
                  d.json /\ d.object /\ d.type = "discovery" }

\* C14: a datagram that is not JSON, is no JSON object, or has a type other
\* than "discovery" triggers no callback and does not end the discovery
\* loop, which goes on to handle later datagrams: the callbacks made are
\* exactly those of the well-formed datagrams received, in their order, and
\* the loop runs for as long as discovery has not been stopped.
C14_BadDatagramsIgnored ==
    /\ Len(disc_calls) = CountIn(disc_log, WellFormed)
    /\ \A i \in DOMAIN disc_calls :
         \E j \in DOMAIN disc_log :
            /\ disc_log[j] \in WellFormed
            /\ CountIn(SubSeq(disc_log, 1, j), WellFormed) = i
            /\ disc_calls[i] = <<disc_log[j].host_name, disc_log[j].addr>>
    /\ disc_running => disc_loop = "running"

\* Each kind of bad datagram has been received, and a well-formed one
\* received after a bad one has had its callback.
C14_Witness ==
    /\ Len(disc_log) = 3
    /\ disc_log[1] \notin WellFormed /\ ~disc_log[1].json
    /\ disc_log[2] \notin WellFormed /\ disc_log[2].object
    /\ disc_log[3] \in WellFormed
    /\ disc_calls = << <<disc_log[3].host_name, disc_log[3].addr>> >>
    /\ disc_loop = "running"

\* C15: a control datagram from address A that the control loop handles is
\* answered by exactly one reply to A: the text STATS by the statistics, and
\* QUALITY:<level> by QUALITY_ACK:<level> with the same level string, for
\* every level string.
C15_CommandsAnswered ==
    \A i \in DOMAIN ctrl_log :
       LET request == ctrl_log[i].request
           replies == ctrl_log[i].replies
       IN  /\ request.text = StatsText =>
                /\ Len(replies) = 1
                /\ replies[1].to = request.addr
                /\ replies[1].stats # <<>>
           /\ startswith(request.text, QualityPrefix) =>
                /\ Len(replies) = 1
                /\ replies[1].to = request.addr
                /\ replies[1].text =
                      AckPrefix \o SubSeq(request.text, Len(QualityPrefix) + 1,
                                          Len(request.text))

\* C16: disconnect() of the client's input sender and of the host's input
\* forwarder, also on an instance never connected or whose listeners never
\* started, returns without raising and leaves the instance disconnected:
\* no listener running, no socket open.
C16_DisconnectSafe ==
    /\ snd_disconnected # "none" =>
          /\ snd_disconnected = "ok"
          /\ snd_listeners # "started" /\ snd_socket # "open"
    /\ cp_disconnected # "none" =>
          /\ cp_disconnected = "ok"
          /\ ~cp_running /\ cp_socket # "open"
    /\ fwd_disconnected # "none" =>
          /\ fwd_disconnected = "ok"
          /\ fwd_listeners # "started" /\ fwd_socket # "open"

\* C20: when the transport's stop_streaming has returned, the video socket
\* and the control socket are closed and neither the streaming thread nor the
\* control thread is still executing its loop.
C20_StopJoinsThreads ==
    (str_stop = "returned" /\ str_start = "ok") =>
        /\ video_socket = "closed"
        /\ control_socket = "closed"
        /\ stream_thread # "running"
        /\ ctrl_thread # "running"

\* The place of entry e in the host's log, 0 if it is not there.
IndexIn(log, e) ==
    IF \E i \in DOMAIN log : log[i] = e
    THEN CHOOSE i \in DOMAIN log : log[i] = e
    ELSE 0

\* C17: in every host session start the encoder (codec open, encode thread
\* running) and the transport are started before the capture loop starts: no
\* captured frame is offered to an encoder that is not running and no packet
\* is handed over before the transport accepts packets.
C17_StartedBeforeCapture ==
    /\ (cap_running \/ cap_thread # "none") =>
          /\ enc_start = "ok"
          /\ str_start = "ok"
    /\ IndexIn(host_log, [op |-> "start", what |-> "capture"]) > 0 =>
          /\ IndexIn(host_log, [op |-> "start", what |-> "encoder"]) \in
                1..(IndexIn(host_log, [op |-> "start", what |-> "capture"]) - 1)
          /\ IndexIn(host_log, [op |-> "start", what |-> "streamer"]) \in
                1..(IndexIn(host_log, [op |-> "start", what |-> "capture"]) - 1)
    /\ (host_call \in {"starting", "started"} /\ frames_in > 0) =>
          /\ enc_running
          /\ codec_context = "open"
    /\ (host_call \in {"starting", "started"} /\ packets_in > 0) =>
          /\ str_running
          /\ video_socket = "open"

\* A session has started, a frame has been captured and a packet of it has
\* been handed to the transport.
C17_Witness ==
    /\ host_call = "started"
    /\ cap_thread = "running"
    /\ frames_in > 0
    /\ packets_in > 0

C19_FailedStartLeavesNothing ==
    host_call \in {"start_failed", "start_escaped"} =>
        /\ host_call = "start_failed"
        /\ ~host_streaming
        /\ ~host_capture /\ ~host_encoder /\ ~host_streamer
        /\ ~host_input_forwarder
        /\ video_socket # "open"
        /\ control_socket \notin {"bound", "unbound"}
        /\ fwd_socket # "open"

\* C21: stop_encoding always returns: the flush at shutdown never blocks the
\* caller, also when the packet queue is full and nothing consumes it.
C21_StopEncodingReturns ==
    /\ enc_stop # "blocked"
    /\ host_call # "blocked"

\* C22: no queue operation of the pipeline waits. add_frame, send_packet,
\* the capture loop's push and the receiver's push complete at every fill
\* level of their queue, a full queue being left as it is; get_packet on an
\* empty queue returns nothing, at once.
C22_QueueOpsReturn ==
    /\ (encoder_name # NoCodec /\ frames_in < MaxFrames) => ENABLED add_frame
    /\ packets_in < MaxBurst => ENABLED send_packet_small
    /\ (cap_thread = "running" /\ cap_running /\ encoder_name # NoCodec) =>
          ENABLED _capture_pass
    /\ (rx_loop = "running" /\ rx_connected /\ rx_decoded < MaxRxFrames) =>
          ENABLED decode_frame
    /\ Len(enc_frame_queue) <= FrameQueueSize
    /\ Len(str_packet_queue) <= StrPacketQueueSize
    /\ Len(cap_frame_queue) <= CapFrameQueueSize
    /\ Len(rx_frame_queue) <= RxFrameQueueSize
    /\ (cap_last # NoPass /\ Len(cap_last.before) = CapFrameQueueSize) =>
          cap_frame_queue = cap_last.before
    /\ ~gp_last.waits
    /\ gp_last.called => gp_last.item = NoPacket

\* Every producer has pushed to its full queue and get_packet has been
\* called on the empty packet queue.
C22_Witness ==
    /\ Len(enc_frame_queue) = FrameQueueSize
    /\ last_op.op = "put" /\ last_op.full
    /\ Len(str_packet_queue) = StrPacketQueueSize
    /\ packets_in > StrPacketQueueSize
    /\ Len(cap_last.before) = CapFrameQueueSize
    /\ Len(rx_frame_queue) = RxFrameQueueSize
    /\ rx_decoded > RxFrameQueueSize
    /\ gp_last.called

\* C29: in each pass of the capture loop the frame goes to the on_frame
\* callback exactly once, before any attempt to push it into the capture's
\* own queue; a full queue is left unchanged although the callback got the
\* frame.
C29_CallbackBeforePush ==
    cap_last # NoPass =>
        /\ Len(cap_last.calls) = 1
        /\ cap_last.calls[1].frame = cap_last.frame
        /\ cap_last.calls[1].queue = cap_last.before
        /\ cap_frame_queue =
              IF Len(cap_last.before) >= CapFrameQueueSize
              THEN cap_last.before
              ELSE Append(cap_last.before, cap_last.frame)
        /\ frames_in >= cap_last.frame

\* A pass has found the capture's queue full.
C29_Witness ==
    /\ cap_last # NoPass
    /\ Len(cap_last.before) = CapFrameQueueSize
    /\ Len(cap_last.calls) = 1

\* Packet p was produced before packet r: an earlier frame, or an earlier
\* packet of the same frame.
Before(p, r) ==
    \/ p.frame < r.frame
    \/ p.frame = r.frame /\ p.part < r.part

InOrder(q) == \A i, j \in DOMAIN q : i < j => Before(q[i], q[j])

C24_OnePusher == Cardinality(packet_queue_pushers) <= 1


\* C25: a pass that fails for one item never ends a host loop. After a
\* failed grab or callback the capture thread is running and takes its next
\* pass; after a failed encode the encode thread is at its loop test and
\* takes the next frame there is; after a failed or would-block send the
\* streaming thread is running and sends the next packet there is.
C25_LoopsSurviveFailures ==
    /\ (error_at.capture > 0 /\ cap_running) =>
          /\ cap_thread = "running"
          /\ encoder_name # NoCodec => ENABLED _capture_pass
    /\ (error_at.encode > 0 /\ enc_running) =>
          /\ enc_at \in {"test", "put"}
          /\ (enc_at = "test" /\ enc_frame_queue # <<>>
                /\ codec_context = "open") => ENABLED _encode_loop_take
    /\ (error_at.stream > 0 /\ str_running) =>
          /\ stream_thread = "running"
          /\ str_packet_queue # <<>> => ENABLED streaming_loop

\* Each of the three loops has had a pass fail and has processed a later
\* item since.
C25_Witness ==
    /\ error_at.capture > 0 /\ frames_in >= error_at.capture
    /\ error_at.encode > 0 /\ enc_frame_count >= error_at.encode
    /\ error_at.stream > 0 /\ last_packet.frame >= error_at.stream
    /\ sendto_log # <<>>


\* C26: an error on one packet never ends the receive loop: while the
\* receiver is connected the loop is running unless its source has ended.
C26_PacketErrorKeepsLoop ==
    /\ rx_end_cause # "packet"
    /\ (rx_loop = "ended" /\ rx_connected) => rx_end_cause = "source"


\* C27: every loop tests its running flag at each pass, so once
\* stop_capture, stop_encoding and stop_streaming have cleared the flag of a
\* started loop, the capture loop, the encode loop, the streaming loop and
\* the control loop each end, whatever their queues hold and whether their
\* sockets are open.
C27_LoopsTerminate ==
    /\ (cap_thread = "running" /\ ~cap_running) ~> (cap_thread = "exited")
    /\ (enc_start = "ok" /\ ~enc_running) ~> (enc_at = "ended")
    /\ (stream_thread = "running" /\ ~str_running)
          ~> (stream_thread = "exited")
    /\ (ctrl_thread = "running" /\ ~str_running)
          ~> (ctrl_thread = "exited")

\* All three components have worked and been stopped and the four loops
\* have ended, the encode loop with frames still queued.
C27_Witness ==
    /\ cap_thread = "exited"
    /\ enc_at = "ended"
    /\ enc_frame_queue # <<>>
    /\ enc_frame_count > 0
    /\ stream_thread = "exited"
    /\ ctrl_thread = "exited"
    /\ str_stop = "returned"
    /\ sent_packets > 0


\* C28: whenever start_streaming has returned True and streaming goes on,
\* the control thread is alive in its loop, so a command waiting at the
\* control port can be taken: the thread has not ended for having been
\* started before running was set.
C28_ControlThreadAlive ==
    (str_start = "ok" /\ str_running) =>
        /\ ctrl_thread = "running"
        /\ (control_socket = "bound" /\ ctrl_net # <<>>) => ENABLED control_loop


\* C30: in a session of either client application set_scaling has been
\* called with the session's display and stream dimensions before connect
\* starts the listeners of the input sender: while the listeners run the
\* sender holds the session's dimensions, and every event sent was made with
\* them, none with the values the sender was constructed with.
C30_ScalingBeforeListeners ==
    LET cp_dims == <<cp_display_width, cp_display_height, cp_stream_width,
                     cp_stream_height>>
    IN  /\ (ses_app = "gui" /\ snd_listeners = "started") =>
              /\ snd_args = ses_dims
              /\ snd_scale_x = scale_factor(ses_dims[1], ses_dims[3])
              /\ snd_scale_y = scale_factor(ses_dims[2], ses_dims[4])
        /\ (ses_app = "client_py" /\ cp_running) => cp_dims = ses_dims
        /\ (last_handler = "snd" /\ sent_event # NoEvent) =>
              snd_args = ses_dims
        /\ (last_handler = "cp" /\ sent_event # NoEvent) =>
              /\ cp_dims = ses_dims
              /\ <<sent_event.x, sent_event.y>> =
                    cp_scale_coordinates(raw_event.x, raw_event.y,
                                         ses_dims[1], ses_dims[2],
                                         ses_dims[3], ses_dims[4])

\* The handler of client.py has returned and a pointer event off the origin
\* has been sent, made with the label's own size.
C30_Witness ==
    /\ ses_app = "client_py"
    /\ ses_call = "returned"
    /\ ses_dims[1] # FallbackDisplayWidth
    /\ last_handler = "cp"
    /\ sent_event # NoEvent
    /\ raw_event.x > 0


\* C31: discovery messages round-trip. What parse_broadcast_message makes
\* of the bytes of create_broadcast_message(name, ip, port) is a message, not
\* None, whose type is "discovery" and whose host_name, host_ip and port are
\* the arguments.
C31_MessageRoundTrip ==
    dm_parsed.called =>
        /\ ~dm_parsed.none
        /\ dict_get(dm_parsed.message, K_type) = JStr(V_discovery)
        /\ dict_get(dm_parsed.message, K_host_name) = JStr(dm_args[1])
        /\ dict_get(dm_parsed.message, K_host_ip) = JStr(dm_args[2])
        /\ dict_get(dm_parsed.message, K_port) = JInt(dm_args[3])

\* A message has been parsed whose host name holds a quote and a backslash
\* and whose IP string would, unescaped, end the string and start a field.
C31_Witness ==
    /\ dm_parsed.called
    /\ dm_args[1] = <<"\"", "\\">>
    /\ dm_args[2] = <<"a", "\"", ",">>
    /\ dm_args[3] = DiscoveryPort


\* C32: when the discovery port is taken, start_discovery binds an
\* ephemeral port, records that port as the instance's port and starts the
\* listener all the same: the instance is running, its loop is running and
\* its port is the port its socket is bound to.
C32_EphemeralFallback ==
    disc_socket = "ephemeral" =>
        /\ disc_running
        /\ disc_loop = "running"
        /\ disc_bound \in EphemeralPorts
        /\ disc_port = disc_bound

\* start_discovery has found the discovery port taken, and announcements
\* have been sent to that port since.
C32_Witness ==
    /\ disc_socket = "ephemeral"
    /\ disc_port # DiscoveryPort
    /\ disc_net # <<>>


\* The _stream_packets threads that are running.
pump_threads == old_pumps + (IF pump_thread = "running" THEN 1 ELSE 0)

\* C33: no thread of an earlier session runs against a later session: at
\* most one _stream_packets thread is running, and while the host is
\* streaming none of an earlier session is.
C33_OnePumpThread ==
    /\ pump_threads <= 1
    /\ host_streaming => old_pumps = 0


\* C34: every datagram the sender hands to the video socket, the fragment
\* header included, is at most mtu_size bytes long.
C34_DatagramWithinMtu ==
    \A i \in DOMAIN sendto_log : Len(sendto_log[i]) <= mtu_size


\* C35: capture.get_frame never raises: on an empty queue it returns None,
\* otherwise it empties the queue and returns the frame queued last.
C35_GetFrameNeverRaises ==
    cap_got.called =>
        /\ cap_got.raised = "none"
        /\ cap_got.before = <<>> => cap_got.none
        /\ cap_got.before # <<>> =>
              /\ ~cap_got.none
              /\ cap_got.frame = cap_got.before[Len(cap_got.before)]


\* C36: the encode thread is never inside a codec call while stop_encoding
\* is flushing the codec, and no codec call of the encode thread is made
\* on, or is still going on in, a context that stop_encoding has closed.
C36_CodecCallsExclusive ==
    enc_at = "in_codec" =>
        /\ flush_at # "flushing"
        /\ enc_call_on = "open"
        /\ codec_context = "open"


\* C37: the sender statistics count only what was sent: a step that raises
\* sent_packets or sent_bytes is one in which every datagram of the packet
\* was handed to the video socket and accepted by it.
C37_CountsOnlySent ==
    [][(sent_packets' > sent_packets \/ sent_bytes' > sent_bytes) =>
          /\ sendto_log' # <<>>
          /\ net' = net \o sendto_log']_vars


\* C38: while the client session is not connected (before connect, after
\* disconnect, after the connection was marked lost) the input sender
\* sends nothing: no step taken with connected false puts a datagram on
\* the way to the host's control port.
C38_NoInputWhenDisconnected ==
    [][~app_connected => Len(ctrl_net') <= Len(ctrl_net)]_vars

====
